---- MODULE Spec2Model ----
(***************************************************************************)
(* Transcript-budget engine of openclaw: browser snapshot expiry           *)
(* (expireBrowserSnapshots), the tiered context pruner                     *)
(* (pruneContextMessages), the "context" hook that chains them, and the    *)
(* persistence of expired snapshot ids in the session log.                 *)
(*                                                                         *)
(* Texts are TLA+ strings, so lengths, excerpts and the placeholder texts  *)
(* are computed as the code computes them.  A user message whose content   *)
(* is a plain string is written as one text block of the same string       *)
(* (estimateMessageChars gives both the same size).                        *)
(***************************************************************************)
EXTENDS Integers, Sequences, FiniteSets, TLC

VARIABLES
    messages,   \* the session transcript the host hands to every call
    runtime,    \* BrowserSnapshotExpiryRuntimeValue of the session, or absent
    pruning,    \* ContextPruningRuntimeValue of the session, or absent
    entries,    \* the session log (SessionManager entries), oldest first
    cfg,        \* agents.defaults.contextPruning of the configuration file
    nextId,     \* number of tool calls issued so far (ids are t1, t2, ...)
    addedSince, \* tool-result and user turns added since the last expiry pass
    seenSince,  \* per snapshot id: such turns seen by the passes since it was tracked
    last,       \* what the last operation was given and what it returned
    ledger,     \* the session's FlushLedgerEntry (or absent) and the flush settings
    flushes,    \* per compaction generation: the flushes signalled so far
    decision,   \* what the last flush decision was given and what it returned
    call        \* a direct call of one function: its arguments and its result

sessionVars ==
    <<messages, runtime, pruning, entries, cfg, nextId, addedSince, seenSince, last>>

flushVars == <<ledger, flushes, decision>>

callVars == <<call>>

vars == <<messages, runtime, pruning, entries, cfg, nextId, addedSince, seenSince, last,
          ledger, flushes, decision, call>>

----------------------------------------------------------------------------
(* Bounds of the model *)

\* Longest transcript of a session (Spec), of the direct calls of
\* expireBrowserSnapshots (TickSpec) and of pruneContextMessages (PruneSpec).
MaxMessages == 5
MaxTickMessages == 6
MaxPruneMessages == 5

\* Compactions of a session (FlushSpec).
MaxCompactions == 2

\* Direct calls (CallSpec): assistant turns of the transcript handed to
\* isBrowserSnapshotToolResult, patterns of an allow or deny list, entries of
\* the session log read at startup, content blocks of a measured message.
MaxCalls == 2
MaxPatterns == 2
MaxEntries == 3
MaxBlocks == 3

----------------------------------------------------------------------------
(* Program constants *)

CHARS_PER_TOKEN_ESTIMATE == 4
IMAGE_CHAR_ESTIMATE == 8000
BROWSER_SNAPSHOT_EXPIRED_PLACEHOLDER == "[Browser snapshot expired - content cleared]"
BROWSER_SNAPSHOT_STATE_CUSTOM_TYPE == "openclaw.browser-snapshot-expiry"
DEFAULT_HARD_CLEAR_PLACEHOLDER == "[Old tool result content cleared]"

----------------------------------------------------------------------------
(* Small helpers *)

Max(a, b) == IF a >= b THEN a ELSE b

Range(s) == {s[i] : i \in 1..Len(s)}

----------------------------------------------------------------------------
(* Content blocks and messages (AgentMessage) *)

NoArgs == [isNull |-> TRUE, action |-> "", json |-> "{}"]

Args(action, json) == [isNull |-> FALSE, action |-> action, json |-> json]

TextBlock(s) == [type |-> "text", text |-> s, id |-> "", name |-> "", args |-> NoArgs]

ImageBlock == [type |-> "image", text |-> "", id |-> "", name |-> "", args |-> NoArgs]

ToolCallBlock(id, name, args) ==
    [type |-> "toolCall", text |-> "", id |-> id, name |-> name, args |-> args]

UserMessage(s) ==
    [role |-> "user", content |-> <<TextBlock(s)>>, toolCallId |-> "", toolName |-> ""]

AssistantMessage(blocks) ==
    [role |-> "assistant", content |-> blocks, toolCallId |-> "", toolName |-> ""]

ToolResultMessage(id, name, blocks) ==
    [role |-> "toolResult", content |-> blocks, toolCallId |-> id, toolName |-> name]

\* asText
asText(s) == TextBlock(s)

\* { ...msg, content: [asText(text)] }
WithContent(msg, s) == [msg EXCEPT !.content = <<asText(s)>>]

----------------------------------------------------------------------------
(* String normalisation: String.prototype.toLowerCase and trim *)

UpperChars == "ABCDEFGHIJKLMNOPQRSTUVWXYZ"
LowerChars == "abcdefghijklmnopqrstuvwxyz"

\* The lower-case letter of each upper-case letter.
LowerOf ==
    [c \in {SubSeq(UpperChars, k, k) : k \in 1..Len(UpperChars)} |->
        LET k == CHOOSE k \in 1..Len(UpperChars) : SubSeq(UpperChars, k, k) = c
        IN  SubSeq(LowerChars, k, k)]

LowerChar(c) == IF c \in DOMAIN LowerOf THEN LowerOf[c] ELSE c

RECURSIVE toLowerCase(_)
toLowerCase(s) ==
    IF Len(s) = 0 THEN ""
    ELSE LowerChar(SubSeq(s, 1, 1)) \o toLowerCase(SubSeq(s, 2, Len(s)))

IsSpace(c) == c \in {" ", "\n", "\t", "\r"}

RECURSIVE trimStart(_)
trimStart(s) ==
    IF Len(s) > 0 /\ IsSpace(SubSeq(s, 1, 1)) THEN trimStart(SubSeq(s, 2, Len(s)))
    ELSE s

RECURSIVE trimEnd(_)
trimEnd(s) ==
    IF Len(s) > 0 /\ IsSpace(SubSeq(s, Len(s), Len(s)))
    THEN trimEnd(SubSeq(s, 1, Len(s) - 1))
    ELSE s

trim(s) == trimEnd(trimStart(s))

----------------------------------------------------------------------------
(* tools.ts: snapshot classification by call-site lookup *)

\* The arguments of the first toolCall block with this id, scanning the
\* assistant messages in order and their blocks in order; NoArgs is null.
findToolCallArguments(msgs, toolCallId) ==
    LET hits == UNION {{<<i, j>> : j \in {k \in 1..Len(msgs[i].content) :
                                  /\ msgs[i].content[k].type = "toolCall"
                                  /\ msgs[i].content[k].id = toolCallId}} :
                       i \in {k \in 1..Len(msgs) : msgs[k].role = "assistant"}}
    IN  IF hits = {} THEN NoArgs
        ELSE LET first == CHOOSE p \in hits :
                              \A q \in hits :
                                  \/ p[1] < q[1]
                                  \/ (p[1] = q[1] /\ p[2] <= q[2])
             IN  msgs[first[1]].content[first[2]].args

\* Mutant: every result of the browser tool whose call is found is a snapshot.
isBrowserSnapshotToolResult_AnyAction(message, msgs) ==
    IF message.role # "toolResult" THEN FALSE
    ELSE IF trim(toLowerCase(message.toolName)) # "browser" THEN FALSE
    ELSE IF message.toolCallId = "" THEN FALSE
    ELSE ~findToolCallArguments(msgs, message.toolCallId).isNull

isBrowserSnapshotToolResult(message, msgs) ==
    IF message.role # "toolResult" THEN FALSE
    ELSE IF trim(toLowerCase(message.toolName)) # "browser" THEN FALSE
    ELSE IF message.toolCallId = "" THEN FALSE
    ELSE LET args == findToolCallArguments(msgs, message.toolCallId)
         IN  IF args.isNull THEN FALSE
             ELSE toLowerCase(args.action) = "snapshot"

----------------------------------------------------------------------------
(* runtime.ts: BrowserSnapshotExpiryRuntimeValue.  The tracker maps each     *)
(* tracked toolCallId to its callsSince.                                    *)

EmptyTracker == [id \in {} |-> 0]

SnapshotRuntime(enabled, toolCalls, expiredIds) ==
    [present |-> TRUE,
     settings |-> [enabled |-> enabled, toolCalls |-> toolCalls],
     tracker |-> EmptyTracker,
     expiredIds |-> expiredIds,
     lastToolResultCount |-> 0,
     lastUserMessageCount |-> 0]

\* No runtime registered for the session (getBrowserSnapshotExpiryRuntime
\* returns null).
NoSnapshotRuntime ==
    [present |-> FALSE,
     settings |-> [enabled |-> FALSE, toolCalls |-> 0],
     tracker |-> EmptyTracker,
     expiredIds |-> {},
     lastToolResultCount |-> 0,
     lastUserMessageCount |-> 0]

----------------------------------------------------------------------------
(* pruner.ts: expireBrowserSnapshots *)

CountRole(msgs, role) == Cardinality({i \in 1..Len(msgs) : msgs[i].role = role})

\* Mutant: only the new tool results are counted.
incrementCount_ToolResultsOnly(msgs, rt) ==
    Max(0, CountRole(msgs, "toolResult") - rt.lastToolResultCount)

\* Mutant: the turns of the whole transcript are counted at every call.
incrementCount_NoWatermarks(msgs, rt) ==
    CountRole(msgs, "toolResult") + CountRole(msgs, "user")

\* newToolCalls + newUserMessages
incrementCount(msgs, rt) ==
    Max(0, CountRole(msgs, "toolResult") - rt.lastToolResultCount)
    + Max(0, CountRole(msgs, "user") - rt.lastUserMessageCount)

\* The tracker after "entry.callsSince += incrementCount" for every entry.
incrementedTracker(tracker, inc) ==
    IF inc > 0 THEN [id \in DOMAIN tracker |-> tracker[id] + inc] ELSE tracker

\* Mutant: the scan skips the tracked ids but not the expired ones.
isNewSnapshot_IgnoresExpired(msg, msgs, rt) ==
    /\ msg.role = "toolResult"
    /\ msg.toolCallId # ""
    /\ ~(msg.toolCallId \in DOMAIN rt.tracker)
    /\ isBrowserSnapshotToolResult(msg, msgs)

\* Whether the scan pushes the message's id onto newSnapshotIds.
isNewSnapshot(msg, msgs, rt) ==
    /\ msg.role = "toolResult"
    /\ msg.toolCallId # ""
    /\ ~(msg.toolCallId \in DOMAIN rt.tracker \/ msg.toolCallId \in rt.expiredIds)
    /\ isBrowserSnapshotToolResult(msg, msgs)

\* newSnapshotIds after the scan of the first n messages, in transcript order.
RECURSIVE newSnapshotIdsUpTo(_, _, _)
newSnapshotIdsUpTo(msgs, rt, n) ==
    IF n = 0 THEN <<>>
    ELSE LET rest == newSnapshotIdsUpTo(msgs, rt, n - 1)
         IN  IF isNewSnapshot(msgs[n], msgs, rt)
             THEN Append(rest, msgs[n].toolCallId)
             ELSE rest

newSnapshotIds(msgs, rt) == newSnapshotIdsUpTo(msgs, rt, Len(msgs))

\* Mutant: a new snapshot does not force the tracked entries to the threshold.
forcedTracker_NoForce(tracker, newIds, toolCalls) == tracker

\* "If new snapshots were found, expire all existing tracked snapshots":
\* every entry's callsSince is set to the threshold.
forcedTracker(tracker, newIds, toolCalls) ==
    IF Len(newIds) > 0 /\ DOMAIN tracker # {}
    THEN [id \in DOMAIN tracker |-> toolCalls]
    ELSE tracker

\* Mutant: the earlier new snapshots are not queued for expiry.
snapshotsToExpire_None(newIds) == {}

\* All new snapshot ids but the last.
snapshotsToExpire(newIds) ==
    IF Len(newIds) > 1 THEN {newIds[i] : i \in 1..(Len(newIds) - 1)} ELSE {}

\* Mutant: the last new snapshot is registered with callsSince 1.
registeredTracker_StartsAtOne(tracker, newIds) ==
    IF Len(newIds) > 0
    THEN LET lastSnapshotId == newIds[Len(newIds)]
         IN  [id \in DOMAIN tracker \cup {lastSnapshotId} |->
                 IF id = lastSnapshotId THEN 1 ELSE tracker[id]]
    ELSE tracker

\* tracker.set(lastSnapshotId, {callsSince: 0}) for the last new snapshot.
registeredTracker(tracker, newIds) ==
    IF Len(newIds) > 0
    THEN LET lastSnapshotId == newIds[Len(newIds)]
         IN  [id \in DOMAIN tracker \cup {lastSnapshotId} |->
                 IF id = lastSnapshotId THEN 0 ELSE tracker[id]]
    ELSE tracker

\* Mutant: an entry expires only once it is past the threshold.
expiredThisPass_Strict(tracker, newIds, toolCalls) ==
    snapshotsToExpire(newIds) \cup {id \in DOMAIN tracker : tracker[id] > toolCalls}

\* expiredIds of the pass: the queued ids and the entries at the threshold.
expiredThisPass(tracker, newIds, toolCalls) ==
    snapshotsToExpire(newIds) \cup {id \in DOMAIN tracker : tracker[id] >= toolCalls}

\* The positions whose tool result is replaced by the placeholder.
expiredIndexes(msgs, expiredSet) ==
    {i \in 1..Len(msgs) :
        /\ msgs[i].role = "toolResult"
        /\ msgs[i].toolCallId # ""
        /\ msgs[i].toolCallId \in expiredSet}

\* Mutant: the placeholder is added to the content instead of replacing it.
expiredMessage_KeepsContent(msg) ==
    [msg EXCEPT !.content = Append(@, asText(BROWSER_SNAPSHOT_EXPIRED_PLACEHOLDER))]

\* Mutant: the replacement is built anew and loses the tool name.
expiredMessage_NoSpread(msg) ==
    [WithContent(msg, BROWSER_SNAPSHOT_EXPIRED_PLACEHOLDER) EXCEPT !.toolName = ""]

expiredMessage(msg) == WithContent(msg, BROWSER_SNAPSHOT_EXPIRED_PLACEHOLDER)

\* The result of one call with the feature enabled: the returned array,
\* whether it is the input array itself (same), the ids expired by the call,
\* and the runtime as mutated.
expirePass(msgs, rt) ==
    LET inc       == incrementCount(msgs, rt)
        counted   == [rt EXCEPT
                        !.lastToolResultCount = CountRole(msgs, "toolResult"),
                        !.lastUserMessageCount = CountRole(msgs, "user"),
                        !.tracker = incrementedTracker(rt.tracker, inc)]
        newIds    == newSnapshotIds(msgs, counted)
        threshold == rt.settings.toolCalls
        tracked   == registeredTracker(
                         forcedTracker(counted.tracker, newIds, threshold), newIds)
        expiredSet == expiredThisPass(tracked, newIds, threshold)
        idx       == expiredIndexes(msgs, expiredSet)
        found     == {msgs[i].toolCallId : i \in idx}
    IN  IF expiredSet = {}
        THEN [messages |-> msgs, same |-> TRUE, expired |-> {},
              runtime |-> [counted EXCEPT !.tracker = tracked]]
        ELSE [messages |-> [i \in 1..Len(msgs) |->
                               IF i \in idx THEN expiredMessage(msgs[i]) ELSE msgs[i]],
              same |-> idx = {},
              expired |-> found,
              runtime |-> [counted EXCEPT
                             !.tracker = [id \in DOMAIN tracked \ found |-> tracked[id]],
                             !.expiredIds = counted.expiredIds \cup found]]

\* Mutant: an enabled pass always returns a copy of the array.
expireBrowserSnapshots_AlwaysCopies(msgs, rt) ==
    IF ~rt.settings.enabled
    THEN [messages |-> msgs, same |-> TRUE, expired |-> {}, runtime |-> rt]
    ELSE [expirePass(msgs, rt) EXCEPT !.same = FALSE]

\* Mutant: the pass runs whether or not the feature is enabled.
expireBrowserSnapshots_NoGuard(msgs, rt) == expirePass(msgs, rt)

expireBrowserSnapshots(msgs, rt) ==
    IF ~rt.settings.enabled
    THEN [messages |-> msgs, same |-> TRUE, expired |-> {}, runtime |-> rt]
    ELSE expirePass(msgs, rt)

----------------------------------------------------------------------------
(* tools.ts: makeToolPrunablePredicate (allow / deny glob lists) *)

\* normalizePatterns: trimmed, lower-cased, empty patterns dropped.
RECURSIVE normalizePatterns(_)
normalizePatterns(patterns) ==
    IF Len(patterns) = 0 THEN <<>>
    ELSE LET p == toLowerCase(trim(patterns[1]))
             rest == normalizePatterns(Tail(patterns))
         IN  IF p = "" THEN rest ELSE <<p>> \o rest

\* The RegExp compilePattern builds: each "*" is ".*" (any characters but
\* line terminators), the rest is literal, anchored at both ends.
RECURSIVE globMatches(_, _)
globMatches(name, pattern) ==
    IF Len(pattern) = 0 THEN Len(name) = 0
    ELSE IF SubSeq(pattern, 1, 1) = "*"
    THEN \/ globMatches(name, SubSeq(pattern, 2, Len(pattern)))
         \/ /\ Len(name) > 0
            /\ SubSeq(name, 1, 1) \notin {"\n", "\r"}
            /\ globMatches(SubSeq(name, 2, Len(name)), pattern)
    ELSE /\ Len(name) > 0
         /\ SubSeq(name, 1, 1) = SubSeq(pattern, 1, 1)
         /\ globMatches(SubSeq(name, 2, Len(name)), SubSeq(pattern, 2, Len(pattern)))

\* compilePattern + matchesAny: "*" is kind all, a pattern without "*" is
\* kind exact, any other is kind regex.
matchesAny(toolName, patterns) ==
    \E k \in 1..Len(patterns) :
        \/ patterns[k] = "*"
        \/ globMatches(toolName, patterns[k])

\* Mutant: a name on the allow list is prunable even when it is denied.
makeToolPrunablePredicate_AllowFirst(match, toolName) ==
    LET deny == normalizePatterns(match.deny)
        allow == normalizePatterns(match.allow)
        normalized == toLowerCase(trim(toolName))
    IN  IF Len(allow) > 0 THEN matchesAny(normalized, allow)
        ELSE ~matchesAny(normalized, deny)

makeToolPrunablePredicate(match, toolName) ==
    LET deny == normalizePatterns(match.deny)
        allow == normalizePatterns(match.allow)
        normalized == toLowerCase(trim(toolName))
    IN  IF matchesAny(normalized, deny) THEN FALSE
        ELSE IF Len(allow) = 0 THEN TRUE
        ELSE matchesAny(normalized, allow)

----------------------------------------------------------------------------
(* pruner.ts: size estimate *)

RECURSIVE collectTextSegments(_)
collectTextSegments(content) ==
    IF Len(content) = 0 THEN <<>>
    ELSE IF content[1].type = "text"
    THEN <<content[1].text>> \o collectTextSegments(Tail(content))
    ELSE collectTextSegments(Tail(content))

RECURSIVE SumLen(_)
SumLen(parts) == IF Len(parts) = 0 THEN 0 ELSE Len(parts[1]) + SumLen(Tail(parts))

estimateJoinedTextLength(parts) ==
    IF Len(parts) = 0 THEN 0 ELSE SumLen(parts) + Max(0, Len(parts) - 1)

hasImageBlocks(content) == \E k \in 1..Len(content) : content[k].type = "image"

\* What one block adds to the estimate of a message of the given role.
\* Mutant: image blocks are not counted.
blockChars_NoImages(role, b) ==
    IF role \in {"user", "toolResult"}
    THEN IF b.type = "text" THEN Len(b.text) ELSE 0
    ELSE (IF b.type = "text" THEN Len(b.text) ELSE 0)
         + (IF b.type = "thinking" THEN Len(b.text) ELSE 0)
         + (IF b.type = "toolCall" THEN Len(b.args.json) ELSE 0)

blockChars(role, b) ==
    IF role \in {"user", "toolResult"}
    THEN (IF b.type = "text" THEN Len(b.text) ELSE 0)
         + (IF b.type = "image" THEN IMAGE_CHAR_ESTIMATE ELSE 0)
    ELSE (IF b.type = "text" THEN Len(b.text) ELSE 0)
         + (IF b.type = "thinking" THEN Len(b.text) ELSE 0)
         + (IF b.type = "toolCall" THEN Len(b.args.json) ELSE 0)

RECURSIVE SumBlockChars(_, _)
SumBlockChars(role, content) ==
    IF Len(content) = 0 THEN 0
    ELSE blockChars(role, content[1]) + SumBlockChars(role, Tail(content))

estimateMessageChars(message) ==
    IF message.role \in {"user", "assistant", "toolResult"}
    THEN SumBlockChars(message.role, message.content)
    ELSE 256

RECURSIVE estimateContextChars(_)
estimateContextChars(msgs) ==
    IF Len(msgs) = 0 THEN 0
    ELSE estimateMessageChars(msgs[1]) + estimateContextChars(Tail(msgs))

----------------------------------------------------------------------------
(* pruner.ts: head and tail excerpts of the text blocks joined with "\n" *)

\* The loop of takeHeadFromJoinedText from part i (1-based) on.
RECURSIVE takeHeadLoop(_, _, _, _)
takeHeadLoop(parts, i, remaining, out) ==
    IF ~(i <= Len(parts) /\ remaining > 0) THEN out
    ELSE LET sep  == IF i > 1 THEN "\n" ELSE ""
             rem1 == IF i > 1 THEN remaining - 1 ELSE remaining
             p    == parts[i]
         IN  IF rem1 <= 0 THEN out \o sep
             ELSE IF Len(p) <= rem1
             THEN takeHeadLoop(parts, i + 1, rem1 - Len(p), out \o sep \o p)
             ELSE out \o sep \o SubSeq(p, 1, rem1)

takeHeadFromJoinedText(parts, maxChars) ==
    IF maxChars <= 0 \/ Len(parts) = 0 THEN ""
    ELSE takeHeadLoop(parts, 1, maxChars, "")

\* The loop of takeTailFromJoinedText from part i (1-based) down; out is the
\* text collected so far, already in reading order.
RECURSIVE takeTailLoop(_, _, _, _)
takeTailLoop(parts, i, remaining, out) ==
    IF ~(i >= 1 /\ remaining > 0) THEN out
    ELSE LET p == parts[i]
         IN  IF Len(p) <= remaining
             THEN LET rem1 == remaining - Len(p)
                  IN  IF rem1 > 0 /\ i > 1
                      THEN takeTailLoop(parts, i - 1, rem1 - 1, "\n" \o p \o out)
                      ELSE takeTailLoop(parts, i - 1, rem1, p \o out)
             ELSE SubSeq(p, Len(p) - remaining + 1, Len(p)) \o out

takeTailFromJoinedText(parts, maxChars) ==
    IF maxChars <= 0 \/ Len(parts) = 0 THEN ""
    ELSE takeTailLoop(parts, Len(parts), maxChars, "")

----------------------------------------------------------------------------
(* pruner.ts: pruneContextMessages.  Indexes are 0-based as in the code:    *)
(* index i is msgs[i + 1].  Null is the code's null.  A ratio is held as a   *)
(* percentage: ratio < r is totalChars * 100 < pct * charWindow.            *)

Null == -1

findAssistantCutoffIndex(msgs, keepLastAssistants) ==
    IF keepLastAssistants <= 0 THEN Len(msgs)
    ELSE LET hits == {i \in 0..(Len(msgs) - 1) :
                         /\ msgs[i + 1].role = "assistant"
                         /\ Cardinality({j \in i..(Len(msgs) - 1) :
                                msgs[j + 1].role = "assistant"}) = keepLastAssistants}
         IN  IF hits = {} THEN Null ELSE CHOOSE i \in hits : TRUE

findFirstUserIndex(msgs) ==
    LET hits == {i \in 0..(Len(msgs) - 1) : msgs[i + 1].role = "user"}
    IN  IF hits = {} THEN Null ELSE CHOOSE i \in hits : \A j \in hits : i <= j

trimNote(headChars, tailChars, rawLen) ==
    "\n\n[Tool result trimmed: kept first " \o ToString(headChars)
    \o " chars and last " \o ToString(tailChars)
    \o " chars of " \o ToString(rawLen) \o " chars.]"

\* The trimmed copy, or the message itself when the code returns null.
softTrimToolResultMessage(msg, settings) ==
    IF hasImageBlocks(msg.content) THEN msg
    ELSE LET parts == collectTextSegments(msg.content)
             rawLen == estimateJoinedTextLength(parts)
             headChars == Max(0, settings.softTrim.headChars)
             tailChars == Max(0, settings.softTrim.tailChars)
         IN  IF rawLen <= settings.softTrim.maxChars THEN msg
             ELSE IF headChars + tailChars >= rawLen THEN msg
             ELSE WithContent(msg,
                      takeHeadFromJoinedText(parts, headChars) \o "\n...\n"
                      \o takeTailFromJoinedText(parts, tailChars)
                      \o trimNote(headChars, tailChars, rawLen))

\* Mutant: a result is trimmed from maxChars on.
softTrimApplies_FromMaxChars(msg, settings) ==
    /\ ~hasImageBlocks(msg.content)
    /\ LET rawLen == estimateJoinedTextLength(collectTextSegments(msg.content))
       IN  /\ rawLen >= settings.softTrim.maxChars
           /\ Max(0, settings.softTrim.headChars) + Max(0, settings.softTrim.tailChars)
                  < rawLen

\* Whether softTrimToolResultMessage returns a copy (not null).
softTrimApplies(msg, settings) ==
    /\ ~hasImageBlocks(msg.content)
    /\ LET rawLen == estimateJoinedTextLength(collectTextSegments(msg.content))
       IN  /\ rawLen > settings.softTrim.maxChars
           /\ Max(0, settings.softTrim.headChars) + Max(0, settings.softTrim.tailChars)
                  < rawLen

\* Mutant: the scan starts at index 0 instead of the first user message.
isPrunableIndex_NoHeadCheck(msgs, i, settings, pruneStartIndex, cutoffIndex) ==
    /\ i < cutoffIndex
    /\ msgs[i + 1].role = "toolResult"
    /\ makeToolPrunablePredicate(settings.tools, msgs[i + 1].toolName)
    /\ ~hasImageBlocks(msgs[i + 1].content)

\* Mutant: the scan runs to the end of the array instead of the cutoff.
isPrunableIndex_NoTailCheck(msgs, i, settings, pruneStartIndex, cutoffIndex) ==
    /\ pruneStartIndex <= i
    /\ msgs[i + 1].role = "toolResult"
    /\ makeToolPrunablePredicate(settings.tools, msgs[i + 1].toolName)
    /\ ~hasImageBlocks(msgs[i + 1].content)

\* Whether index i is pushed onto prunableToolIndexes.
isPrunableIndex(msgs, i, settings, pruneStartIndex, cutoffIndex) ==
    /\ pruneStartIndex <= i
    /\ i < cutoffIndex
    /\ msgs[i + 1].role = "toolResult"
    /\ makeToolPrunablePredicate(settings.tools, msgs[i + 1].toolName)
    /\ ~hasImageBlocks(msgs[i + 1].content)

\* prunableToolIndexes, in increasing order, among the indexes below n.
RECURSIVE prunableToolIndexesUpTo(_, _, _, _, _)
prunableToolIndexesUpTo(msgs, n, settings, pruneStartIndex, cutoffIndex) ==
    IF n = 0 THEN <<>>
    ELSE LET rest == prunableToolIndexesUpTo(msgs, n - 1, settings,
                                             pruneStartIndex, cutoffIndex)
         IN  IF isPrunableIndex(msgs, n - 1, settings, pruneStartIndex, cutoffIndex)
             THEN Append(rest, n - 1)
             ELSE rest

\* Mutant: prunableToolChars sums every message of the array.
SumChars_CountsAll(msgs, idxs) == estimateContextChars(msgs)

RECURSIVE SumChars(_, _)
SumChars(msgs, idxs) ==
    IF Len(idxs) = 0 THEN 0
    ELSE estimateMessageChars(msgs[idxs[1] + 1]) + SumChars(msgs, Tail(idxs))

\* Mutant: the size in characters is compared with the window in tokens.
ratioBelow_Tokens(totalChars, charWindow, pct) ==
    totalChars * 100 < pct * (charWindow \div CHARS_PER_TOKEN_ESTIMATE)

ratioBelow(totalChars, charWindow, pct) == totalChars * 100 < pct * charWindow

\* Mutant: the loop does not stop when the ratio falls below hardClearRatio.
RECURSIVE hardClearLoop_NoStop(_, _, _, _, _, _, _)
hardClearLoop_NoStop(msgs, idxs, k, totalChars, charWindow, settings, cleared) ==
    IF k > Len(idxs) THEN [messages |-> msgs, cleared |-> cleared]
    ELSE LET i == idxs[k]
             clearedMsg == WithContent(msgs[i + 1], settings.hardClear.placeholder)
         IN  hardClearLoop_NoStop([msgs EXCEPT ![i + 1] = clearedMsg], idxs, k + 1,
                 totalChars, charWindow, settings, cleared \cup {i})

\* The hard-clear loop from the k-th prunable index on: the array and the
\* indexes cleared.
RECURSIVE hardClearLoop(_, _, _, _, _, _, _)
hardClearLoop(msgs, idxs, k, totalChars, charWindow, settings, cleared) ==
    IF k > Len(idxs) THEN [messages |-> msgs, cleared |-> cleared]
    ELSE IF ratioBelow(totalChars, charWindow, settings.hardClearRatio)
    THEN [messages |-> msgs, cleared |-> cleared]
    ELSE LET i == idxs[k]
             msg == msgs[i + 1]
             clearedMsg == WithContent(msg, settings.hardClear.placeholder)
         IN  hardClearLoop([msgs EXCEPT ![i + 1] = clearedMsg], idxs, k + 1,
                 totalChars + estimateMessageChars(clearedMsg)
                     - estimateMessageChars(msg),
                 charWindow, settings, cleared \cup {i})

\* Mutant: a missing window falls back to a default of 50 tokens.
effectiveContextWindowTokens_Default(override, modelWindow) ==
    IF override > 0 THEN override
    ELSE IF modelWindow > 0 THEN modelWindow
    ELSE 50

\* The effective window: the override when it is a positive number, otherwise
\* ctx.model?.contextWindow (0 when absent).
effectiveContextWindowTokens(override, modelWindow) ==
    IF override > 0 THEN override ELSE modelWindow

\* The result of one call: the returned array, whether it is the input array
\* itself (same), the indexes soft-trimmed and hard-cleared, and
\* outputAfterSoftTrim (soft; the input where the code returns before it).
pruneContextMessages(msgs, settings, modelWindow, override) ==
    LET unchanged == [messages |-> msgs, same |-> TRUE, trimmed |-> {}, cleared |-> {},
                      soft |-> msgs]
        contextWindowTokens == effectiveContextWindowTokens(override, modelWindow)
        charWindow == contextWindowTokens * CHARS_PER_TOKEN_ESTIMATE
        cutoffIndex == findAssistantCutoffIndex(msgs, settings.keepLastAssistants)
        firstUserIndex == findFirstUserIndex(msgs)
        pruneStartIndex == IF firstUserIndex = Null THEN Len(msgs) ELSE firstUserIndex
        totalCharsBefore == estimateContextChars(msgs)
    IN  IF contextWindowTokens <= 0 \/ charWindow <= 0 THEN unchanged
        ELSE IF cutoffIndex = Null THEN unchanged
        ELSE IF ratioBelow(totalCharsBefore, charWindow, settings.softTrimRatio)
        THEN unchanged
        ELSE
        LET idxs == prunableToolIndexesUpTo(msgs, Len(msgs), settings,
                                            pruneStartIndex, cutoffIndex)
            trimmedIdx == {idxs[k] : k \in {k \in 1..Len(idxs) :
                               softTrimApplies(msgs[idxs[k] + 1], settings)}}
            afterSoft == [j \in 1..Len(msgs) |->
                             IF (j - 1) \in trimmedIdx
                             THEN softTrimToolResultMessage(msgs[j], settings)
                             ELSE msgs[j]]
            totalChars == estimateContextChars(afterSoft)
            soft == [messages |-> afterSoft, same |-> trimmedIdx = {},
                     trimmed |-> trimmedIdx, cleared |-> {}, soft |-> afterSoft]
        IN  IF ratioBelow(totalChars, charWindow, settings.hardClearRatio) THEN soft
            ELSE IF ~settings.hardClear.enabled THEN soft
            ELSE IF SumChars(afterSoft, idxs) < settings.minPrunableToolChars THEN soft
            ELSE LET hard == hardClearLoop(afterSoft, idxs, 1, totalChars,
                                           charWindow, settings, {})
                 IN  [messages |-> hard.messages,
                      same |-> trimmedIdx = {} /\ hard.cleared = {},
                      trimmed |-> trimmedIdx, cleared |-> hard.cleared,
                      soft |-> afterSoft]

----------------------------------------------------------------------------
(* browser-snapshot-persistence.ts: the session log holds custom entries;   *)
(* the data of a snapshot-state entry lists the expired ids as an array.    *)

RECURSIVE SetToArray(_)
SetToArray(S) ==
    IF S = {} THEN <<>>
    ELSE LET x == CHOOSE x \in S : TRUE IN <<x>> \o SetToArray(S \ {x})

StateEntry(expiredIds) ==
    [type |-> "custom", customType |-> BROWSER_SNAPSHOT_STATE_CUSTOM_TYPE,
     data |-> [isArray |-> TRUE, expiredIds |-> SetToArray(expiredIds)]]

\* Whether the read loop returns at this entry.
isStateEntry(entry) ==
    /\ entry.type = "custom"
    /\ entry.customType = BROWSER_SNAPSHOT_STATE_CUSTOM_TYPE
    /\ entry.data.isArray

\* Mutant: the scan runs from the oldest entry.
readBrowserSnapshotExpiredIds_Oldest(log) ==
    LET hits == {i \in 1..Len(log) : isStateEntry(log[i])}
    IN  IF hits = {} THEN {}
        ELSE LET oldest == CHOOSE i \in hits : \A j \in hits : j >= i
             IN  Range(log[oldest].data.expiredIds)

readBrowserSnapshotExpiredIds(log) ==
    LET hits == {i \in 1..Len(log) : isStateEntry(log[i])}
    IN  IF hits = {} THEN {}
        ELSE LET latest == CHOOSE i \in hits : \A j \in hits : j <= i
             IN  Range(log[latest].data.expiredIds)

\* The session log after appendBrowserSnapshotState.
appendBrowserSnapshotState(log, expiredIds) ==
    IF expiredIds = {} THEN log ELSE Append(log, StateEntry(expiredIds))

----------------------------------------------------------------------------
(* settings.ts: effective settings from the raw configuration *)

computeBrowserSnapshotExpirySettings(raw) ==
    [enabled |-> raw.expiry.enabled, toolCalls |-> Max(1, raw.expiry.toolCalls)]

computeEffectiveSettings(raw) ==
    [mode |-> raw.mode,
     ttlMs |-> raw.ttlMs,
     keepLastAssistants |-> Max(0, raw.keepLastAssistants),
     softTrimRatio |-> raw.softTrimRatio,
     hardClearRatio |-> raw.hardClearRatio,
     minPrunableToolChars |-> Max(0, raw.minPrunableToolChars),
     tools |-> raw.tools,
     softTrim |-> [maxChars |-> Max(0, raw.softTrim.maxChars),
                   headChars |-> Max(0, raw.softTrim.headChars),
                   tailChars |-> Max(0, raw.softTrim.tailChars)],
     hardClear |-> raw.hardClear]

\* No pruning runtime registered (getContextPruningRuntime returns null).
NoPruningRuntime(raw) ==
    [present |-> FALSE, settings |-> computeEffectiveSettings(raw),
     contextWindowTokens |-> 0, lastCacheTouchAt |-> "null"]

----------------------------------------------------------------------------
(* extensions.ts: buildContextPruningFactory, run when a session starts *)

\* Mutant: a new process does not read the session log.
startedSnapshotRuntime_NoRead(raw, log) ==
    LET settings == computeBrowserSnapshotExpirySettings(raw)
    IN  IF settings.enabled
        THEN SnapshotRuntime(TRUE, settings.toolCalls, {})
        ELSE NoSnapshotRuntime

startedSnapshotRuntime(raw, log) ==
    LET settings == computeBrowserSnapshotExpirySettings(raw)
    IN  IF settings.enabled
        THEN SnapshotRuntime(TRUE, settings.toolCalls, readBrowserSnapshotExpiredIds(log))
        ELSE NoSnapshotRuntime

startedPruningRuntime(raw, lastTouch) ==
    IF raw.mode # "cache-ttl" THEN NoPruningRuntime(raw)
    ELSE IF ~raw.providerEligible THEN NoPruningRuntime(raw)
    ELSE [present |-> TRUE, settings |-> computeEffectiveSettings(raw),
          contextWindowTokens |-> raw.contextWindowTokens,
          lastCacheTouchAt |-> lastTouch]

----------------------------------------------------------------------------
(* extension.ts: the "context" handler.  elapsed is Date.now() minus the     *)
(* last cache touch.                                                        *)

shouldPrune(pr, elapsed) ==
    /\ pr.lastCacheTouchAt # "null"
    /\ pr.settings.ttlMs > 0
    /\ elapsed >= pr.settings.ttlMs

\* Mutant: snapshot expiry runs only for a session with a pruning runtime.
expiryStage_NeedsPruning(msgs, rt) ==
    IF rt.present /\ rt.settings.enabled /\ pruning.present
    THEN [ran |-> TRUE] @@ expireBrowserSnapshots(msgs, rt)
    ELSE [ran |-> FALSE, messages |-> msgs, same |-> TRUE, expired |-> {},
          runtime |-> rt]

\* The expiry stage: whether it ran, and the result of expireBrowserSnapshots.
expiryStage(msgs, rt) ==
    IF rt.present /\ rt.settings.enabled
    THEN [ran |-> TRUE] @@ expireBrowserSnapshots(msgs, rt)
    ELSE [ran |-> FALSE, messages |-> msgs, same |-> TRUE, expired |-> {},
          runtime |-> rt]

\* Mutant: the handler appends the state after every pass.
persistStage_Always(log, before, after) ==
    appendBrowserSnapshotState(log, after.expiredIds)

\* Mutant: the record lists only the ids the pass added.
persistStage_OnlyGained(log, before, after) ==
    IF Cardinality(after.expiredIds) > Cardinality(before.expiredIds)
    THEN appendBrowserSnapshotState(log, after.expiredIds \ before.expiredIds)
    ELSE log

\* "Persist expired IDs if any new ones were added".
persistStage(log, before, after) ==
    IF Cardinality(after.expiredIds) > Cardinality(before.expiredIds)
    THEN appendBrowserSnapshotState(log, after.expiredIds)
    ELSE log

\* The pruning stage on the output of the expiry stage.
pruningStage(msgs, pr, modelWindow, elapsed) ==
    IF pr.present /\ pr.settings.mode = "cache-ttl" /\ shouldPrune(pr, elapsed)
    THEN [ran |-> TRUE]
         @@ pruneContextMessages(msgs, pr.settings, modelWindow, pr.contextWindowTokens)
    ELSE [ran |-> FALSE, messages |-> msgs, same |-> TRUE, trimmed |-> {},
          cleared |-> {}, soft |-> msgs]

----------------------------------------------------------------------------
(* The flush trigger: shouldRunMemoryFlush of memory-flush.ts.  The file is  *)
(* not among the sources (its test is); the function is written from         *)
(* section 4.5 of the specification and agrees with every case of the test.  *)
(* An absent number is Null; totalTokensFresh is "true", "false" or          *)
(* "absent"; compactionCount is a number (0 where the tests leave it out).   *)

NoEntry ==
    [present |-> FALSE, totalTokens |-> Null, totalTokensFresh |-> "absent",
     compactionCount |-> 0, memoryFlushCompactionCount |-> Null]

FlushLedgerEntry(totalTokens, fresh, compactionCount, flushedAt) ==
    [present |-> TRUE, totalTokens |-> totalTokens, totalTokensFresh |-> fresh,
     compactionCount |-> compactionCount, memoryFlushCompactionCount |-> flushedAt]

\* Mutant: only a missing total counts as not measured.
isMeasured_ZeroCounts(entry) == entry.present /\ entry.totalTokens # Null

\* (a), (b): the entry is there and its total is not zero or missing.
isMeasured(entry) ==
    entry.present /\ entry.totalTokens # Null /\ entry.totalTokens # 0

\* Mutant: the freshness flag is not looked at.
isStale_Never(entry) == FALSE

\* (c): the freshness flag is explicitly false.
isStale(entry) == entry.totalTokensFresh = "false"

\* (d): trigger = windowTokens - reserveFloor - softThreshold
flushTrigger(settings) ==
    settings.contextWindowTokens - settings.reserveTokensFloor
        - settings.softThresholdTokens

\* Mutant: the total has to be above the trigger.
atTrigger_Strict(entry, settings) == entry.totalTokens > flushTrigger(settings)

atTrigger(entry, settings) == entry.totalTokens >= flushTrigger(settings)

\* Mutant: a missing marker is read as generation 0.
alreadyFlushed_MissingIsZero(entry) ==
    (IF entry.memoryFlushCompactionCount = Null THEN 0
     ELSE entry.memoryFlushCompactionCount) = entry.compactionCount

\* Mutant: the marker is not looked at.
alreadyFlushed_Never(entry) == FALSE

\* (e): the last-flushed marker equals the current compaction generation.
alreadyFlushed(entry) ==
    /\ entry.memoryFlushCompactionCount # Null
    /\ entry.memoryFlushCompactionCount = entry.compactionCount

shouldRunMemoryFlush(entry, settings) ==
    /\ isMeasured(entry)
    /\ ~isStale(entry)
    /\ atTrigger(entry, settings)
    /\ ~alreadyFlushed(entry)

NoDecision == [made |-> FALSE, signal |-> FALSE, entry |-> NoEntry]

\* contextWindowTokens, reserveTokensFloor, softThresholdTokens of the tests,
\* in thousands of tokens where the tests use thousands.
FlushSettings ==
    {[contextWindowTokens |-> 100, reserveTokensFloor |-> 10, softThresholdTokens |-> 5],
     [contextWindowTokens |-> 100, reserveTokensFloor |-> 20, softThresholdTokens |-> 10],
     [contextWindowTokens |-> 16, reserveTokensFloor |-> 20, softThresholdTokens |-> 4]}

\* totalTokens of an entry; Null is a missing total.
TokenTotals == {Null, 0, 10, 84, 85, 96}

\* No function is called directly.
NoCall == [fn |-> "none", done |-> FALSE]

\* The flush variables of a session whose flush decisions are not modelled.
NoFlushLedger ==
    /\ ledger = [entry |-> NoEntry,
                 settings |-> [contextWindowTokens |-> 100, reserveTokensFloor |-> 10,
                               softThresholdTokens |-> 5]]
    /\ flushes = [g \in {} |-> 0]
    /\ decision = NoDecision

----------------------------------------------------------------------------
(* What the last operation did (read by the properties) *)

NoExpiry == [ran |-> FALSE, same |-> TRUE, expired |-> {}]
NoPrune == [ran |-> FALSE, same |-> TRUE, trimmed |-> {}, cleared |-> {}]
NoWindow == [override |-> 0, modelWindow |-> 0]

Idle(op) ==
    [op |-> op, before |-> NoSnapshotRuntime, added |-> 0, expiry |-> NoExpiry,
     afterExpiry |-> <<>>, prune |-> NoPrune, window |-> NoWindow,
     afterSoft |-> <<>>, output |-> <<>>, returned |-> FALSE, fault |-> "none"]

\* seenSince after a pass that saw `added` new turns: the ids tracked before
\* the pass have seen them, an id tracked by the pass starts at 0.
SeenAfterPass(before, after, added) ==
    [id \in DOMAIN seenSince \cup DOMAIN after.tracker |->
        IF id \in DOMAIN before.tracker THEN seenSince[id] + added
        ELSE IF id \in DOMAIN seenSince /\ id \notin DOMAIN after.tracker
        THEN seenSince[id]
        ELSE 0]

----------------------------------------------------------------------------
(* Texts of the transcripts built by the host *)

SnapshotText ==
    "- navigation [ref=e1]:\n  - link \"Home\" [ref=e5]\n- main:\n  - button \"Submit\" [ref=e12]"

ExecText ==
    "HEAD-of-output " \o "0123456789abcdefghijklmnopqrstuvwxyz0123456789"
    \o "ABCDEFGHIJKLMNOPQRSTUVWXYZ0123456789abcdefghijklmnopqrstuvwxyz"
    \o "0123456789ABCDEFGHIJKLMNOPQRSTUVWXYZ" \o " TAIL-of-output"

ToolId(n) == "t" \o ToString(n)

SnapshotCall(id) ==
    AssistantMessage(<<ToolCallBlock(id, "browser",
        Args("snapshot", "{\"action\":\"snapshot\"}"))>>)

ExecCall(id) ==
    AssistantMessage(<<ToolCallBlock(id, "exec",
        Args("", "{\"command\":\"echo test\"}"))>>)

\* The assistant message with the call, and the tool result, of one tool use.
\* "page" is a snapshot whose result holds a text and a screenshot.
ToolUse(kind, id) ==
    CASE kind = "snapshot" ->
           <<SnapshotCall(id),
             ToolResultMessage(id, "browser", <<TextBlock(SnapshotText)>>)>>
      [] kind = "page" ->
           <<SnapshotCall(id),
             ToolResultMessage(id, "browser", <<TextBlock("page"), ImageBlock>>)>>
      [] kind = "exec" ->
           <<ExecCall(id),
             ToolResultMessage(id, "exec", <<TextBlock(ExecText)>>)>>

----------------------------------------------------------------------------
(* Configurations *)

BaseConfig ==
    [expiry |-> [enabled |-> TRUE, toolCalls |-> 2],
     mode |-> "off",
     providerEligible |-> TRUE,
     ttlMs |-> 5 * 60 * 1000,
     keepLastAssistants |-> 1,
     softTrimRatio |-> 30,
     hardClearRatio |-> 50,
     minPrunableToolChars |-> 50,
     tools |-> [allow |-> <<>>, deny |-> <<>>],
     softTrim |-> [maxChars |-> 100, headChars |-> 10, tailChars |-> 10],
     hardClear |-> [enabled |-> TRUE, placeholder |-> DEFAULT_HARD_CLEAR_PLACEHOLDER],
     contextWindowTokens |-> 50,
     modelContextWindow |-> 0]

\* Threshold 0 is raised to 1 by computeBrowserSnapshotExpirySettings.
Config(toolCalls, mode, keepLastAssistants) ==
    [BaseConfig EXCEPT !.expiry.toolCalls = toolCalls, !.mode = mode,
                       !.keepLastAssistants = keepLastAssistants]

Configs ==
    {Config(0, "off", 1), Config(2, "cache-ttl", 1), Config(0, "cache-ttl", 0),
     [Config(1, "cache-ttl", 1) EXCEPT !.providerEligible = FALSE]}

----------------------------------------------------------------------------
(* The session: the host adds turns, fires the "context" event before each  *)
(* model call, and may restart the process on the same session log.  The    *)
(* transcript only grows, and the host keeps its own turns: what a call     *)
(* returns goes to the model, not back into the transcript.                 *)

Init ==
    /\ NoFlushLedger
    /\ call = NoCall
    /\ messages = <<>>
    /\ cfg \in Configs
    /\ entries = <<>>
    /\ runtime = startedSnapshotRuntime(cfg, <<>>)
    /\ \E touch \in {"null", "time"} : pruning = startedPruningRuntime(cfg, touch)
    /\ nextId = 0
    /\ addedSince = 0
    /\ seenSince = EmptyTracker
    /\ last = Idle("start")

UserTurn(max) ==
    /\ Len(messages) + 1 <= max
    /\ messages' = Append(messages, UserMessage("hi"))
    /\ addedSince' = addedSince + 1
    /\ last' = Idle("turn")
    /\ UNCHANGED <<runtime, pruning, entries, cfg, nextId, seenSince>>
    /\ UNCHANGED <<flushVars, callVars>>

AssistantTurn(max) ==
    /\ Len(messages) + 1 <= max
    /\ messages' = Append(messages, AssistantMessage(<<TextBlock("ok")>>))
    /\ last' = Idle("turn")
    /\ UNCHANGED <<runtime, pruning, entries, cfg, nextId, addedSince, seenSince>>
    /\ UNCHANGED <<flushVars, callVars>>

ToolTurn(kinds, max) ==
    \E kind \in kinds :
        LET added == ToolUse(kind, ToolId(nextId + 1))
        IN  /\ Len(messages) + Len(added) <= max
            /\ messages' = messages \o added
            /\ nextId' = nextId + 1
            /\ addedSince' = addedSince + 1
            /\ last' = Idle("turn")
            /\ UNCHANGED <<runtime, pruning, entries, cfg, seenSince>>
            /\ UNCHANGED <<flushVars, callVars>>

\* The "context" event: snapshot expiry, persistence, then pruning.
ContextEvent ==
    \E elapsed \in {0, cfg.ttlMs} :
    \E exp \in {expiryStage(messages, runtime)} :
    \E prn \in {pruningStage(exp.messages, pruning, cfg.modelContextWindow, elapsed)} :
            /\ runtime' = exp.runtime
            /\ entries' = IF exp.ran THEN persistStage(entries, runtime, exp.runtime)
                          ELSE entries
            /\ pruning' = IF prn.ran /\ ~prn.same
                          THEN [pruning EXCEPT !.lastCacheTouchAt = "time"]
                          ELSE pruning
            /\ addedSince' = IF exp.ran THEN 0 ELSE addedSince
            /\ seenSince' = IF exp.ran
                            THEN SeenAfterPass(runtime, exp.runtime, addedSince)
                            ELSE seenSince
            /\ last' = [op |-> "context", before |-> runtime, added |-> addedSince,
                        expiry |-> [ran |-> exp.ran, same |-> exp.same,
                                    expired |-> exp.expired],
                        afterExpiry |-> exp.messages,
                        prune |-> [ran |-> prn.ran, same |-> prn.same,
                                   trimmed |-> prn.trimmed, cleared |-> prn.cleared],
                        window |-> [override |-> pruning.contextWindowTokens,
                                    modelWindow |-> cfg.modelContextWindow],
                        afterSoft |-> prn.soft,
                        output |-> prn.messages,
                        returned |-> ~exp.same \/ ~prn.same, fault |-> "none"]
            /\ UNCHANGED <<messages, cfg, nextId>>
            /\ UNCHANGED <<flushVars, callVars>>

\* Mutant: only the hook catches, so a failed append ends the hook as well.
caughtAt_HookOnly(step) == "hook"

\* Where an exception thrown by a step is caught: appendBrowserSnapshotState
\* wraps appendCustomEntry in its own try/catch, everything else is caught by
\* the try/catch around the handler's body.
caughtAt(step) == IF step = "persistence" THEN "appendBrowserSnapshotState" ELSE "hook"

\* The "context" event when one step throws: expireBrowserSnapshots (the
\* runtime as it was or as the pass leaves it), the append to the session log,
\* or pruneContextMessages.  The catch of the handler returns undefined; a
\* failed append is swallowed where it happens and the handler goes on.
FaultyContextEvent ==
    \E elapsed \in {0, cfg.ttlMs}, step \in {"expiry", "persistence", "pruning"},
       mutated \in BOOLEAN :
    \E exp \in {expiryStage(messages, runtime)} :
    \E prn \in {pruningStage(exp.messages, pruning, cfg.modelContextWindow, elapsed)} :
    \E inHook \in {caughtAt(step) = "hook"} :
    \E done \in {step # "expiry" \/ mutated} :
            /\ step = "expiry" => exp.ran
            /\ step = "persistence" =>
                   /\ exp.ran
                   /\ persistStage(entries, runtime, exp.runtime) # entries
            /\ step = "pruning" => prn.ran /\ mutated
            /\ step = "persistence" => mutated
            /\ runtime' = IF done THEN exp.runtime ELSE runtime
            /\ entries' = IF exp.ran /\ step = "pruning"
                          THEN persistStage(entries, runtime, exp.runtime)
                          ELSE entries
            /\ pruning' = IF ~inHook /\ prn.ran /\ ~prn.same
                          THEN [pruning EXCEPT !.lastCacheTouchAt = "time"]
                          ELSE pruning
            /\ addedSince' = IF done THEN 0 ELSE addedSince
            /\ seenSince' = IF done
                            THEN SeenAfterPass(runtime, exp.runtime, addedSince)
                            ELSE seenSince
            /\ last' = [op |-> "context", before |-> runtime, added |-> addedSince,
                        expiry |-> [ran |-> exp.ran, same |-> exp.same,
                                    expired |-> IF done THEN exp.expired ELSE {}],
                        afterExpiry |-> exp.messages,
                        prune |-> IF inHook THEN NoPrune
                                  ELSE [ran |-> prn.ran, same |-> prn.same,
                                        trimmed |-> prn.trimmed,
                                        cleared |-> prn.cleared],
                        window |-> [override |-> pruning.contextWindowTokens,
                                    modelWindow |-> cfg.modelContextWindow],
                        afterSoft |-> IF inHook THEN exp.messages ELSE prn.soft,
                        output |-> IF inHook THEN messages ELSE prn.messages,
                        returned |-> ~inHook /\ (~exp.same \/ ~prn.same),
                        fault |-> step]
            /\ UNCHANGED <<messages, cfg, nextId>>
            /\ UNCHANGED <<flushVars, callVars>>

\* A new process on the same session: the runtimes are rebuilt from the
\* configuration and the session log; what was in memory is gone.
Restart ==
    /\ runtime' = startedSnapshotRuntime(cfg, entries)
    /\ \E touch \in {"null", "time"} : pruning' = startedPruningRuntime(cfg, touch)
    /\ addedSince' = 0
    /\ seenSince' = EmptyTracker
    /\ last' = [Idle("restart") EXCEPT
                   !.before = [NoSnapshotRuntime EXCEPT
                                  !.expiredIds = runtime.expiredIds]]
    /\ UNCHANGED <<messages, entries, cfg, nextId>>
    /\ UNCHANGED <<flushVars, callVars>>

Next ==
    \/ UserTurn(MaxMessages)
    \/ AssistantTurn(MaxMessages)
    \/ ToolTurn({"snapshot", "exec"}, MaxMessages)
    \/ ContextEvent
    \/ Restart

Spec == Init /\ [][Next]_vars

\* The session with steps that may throw.
FaultNext == Next \/ FaultyContextEvent

FaultSpec == Init /\ [][FaultNext]_vars

----------------------------------------------------------------------------
(* expireBrowserSnapshots called directly on a runtime built by hand, as    *)
(* the unit tests do (createRuntime), also with the feature disabled.       *)

TickRuntimes ==
    {SnapshotRuntime(TRUE, 1, {}), SnapshotRuntime(TRUE, 2, {}),
     SnapshotRuntime(TRUE, 3, {}), SnapshotRuntime(FALSE, 3, {})}

TickInit ==
    /\ NoFlushLedger
    /\ call = NoCall
    /\ messages = <<>>
    /\ cfg = BaseConfig
    /\ entries = <<>>
    /\ runtime \in TickRuntimes
    /\ pruning = NoPruningRuntime(BaseConfig)
    /\ nextId = 0
    /\ addedSince = 0
    /\ seenSince = EmptyTracker
    /\ last = Idle("start")

Tick ==
    \E exp \in {expireBrowserSnapshots(messages, runtime)} :
        /\ runtime' = exp.runtime
        /\ addedSince' = IF runtime.settings.enabled THEN 0 ELSE addedSince
        /\ seenSince' = IF runtime.settings.enabled
                        THEN SeenAfterPass(runtime, exp.runtime, addedSince)
                        ELSE seenSince
        /\ last' = [op |-> "tick", before |-> runtime, added |-> addedSince,
                    expiry |-> [ran |-> TRUE, same |-> exp.same,
                                expired |-> exp.expired],
                    afterExpiry |-> exp.messages,
                    prune |-> NoPrune,
                    window |-> NoWindow,
                    afterSoft |-> exp.messages,
                    output |-> exp.messages,
                    returned |-> ~exp.same, fault |-> "none"]
        /\ UNCHANGED <<messages, pruning, entries, cfg, nextId>>
        /\ UNCHANGED <<flushVars, callVars>>

TickNext ==
    \/ UserTurn(MaxTickMessages)
    \/ AssistantTurn(MaxTickMessages)
    \/ ToolTurn({"snapshot", "page", "exec"}, MaxTickMessages)
    \/ Tick

TickSpec == TickInit /\ [][TickNext]_vars

----------------------------------------------------------------------------
(* expireBrowserSnapshots in a session whose host compacts the transcript:  *)
(* a summarization cycle takes the oldest turns out of the context, so a    *)
(* later call is handed a transcript without them and the counts of tool    *)
(* results and user messages may fall below the stored ones (the Math.max   *)
(* of the pass).                                                            *)

CompactTranscript ==
    \E k \in 1..Len(messages) :
        /\ ledger.entry.compactionCount < MaxCompactions - 1
        /\ messages' = SubSeq(messages, k + 1, Len(messages))
        /\ ledger' = [ledger EXCEPT !.entry.compactionCount = @ + 1]
        /\ last' = Idle("compaction")
        /\ UNCHANGED <<runtime, pruning, entries, cfg, nextId, addedSince, seenSince>>
        /\ UNCHANGED <<flushes, decision, callVars>>

CompactedNext ==
    \/ UserTurn(MaxMessages - 1)
    \/ ToolTurn({"snapshot"}, MaxMessages - 1)
    \/ Tick
    \/ CompactTranscript

CompactedSpec == TickInit /\ [][CompactedNext]_vars

----------------------------------------------------------------------------
(* pruneContextMessages called directly on transcripts built message by     *)
(* message                                                                  *)

\* The configuration of the sessions whose tool results carry screenshots.
MediaConfig ==
    [BaseConfig EXCEPT !.mode = "cache-ttl", !.minPrunableToolChars = 120]

\* keepLastAssistants, hardClear.enabled, minPrunableToolChars,
\* softTrim.headChars = softTrim.tailChars, softTrim.maxChars (the long tool
\* result of the transcripts has 174 characters)
PruneConfigs ==
    {[BaseConfig EXCEPT !.mode = "cache-ttl", !.keepLastAssistants = p[1],
                        !.hardClear.enabled = p[2],
                        !.minPrunableToolChars = p[3],
                        !.softTrim.headChars = p[4],
                        !.softTrim.tailChars = p[4],
                        !.softTrim.maxChars = p[5]] :
        p \in {<<0, FALSE, 50, 10, 100>>, <<1, TRUE, 150, 10, 100>>,
               <<2, TRUE, 50, 10, 100>>, <<1, TRUE, 50, 100, 100>>,
               <<1, TRUE, 50, 10, 174>>}}
    \cup {MediaConfig}

\* contextWindowTokensOverride and ctx.model.contextWindow of a call, in
\* tokens; 0 stands for an absent value.
WindowInputs ==
    {[override |-> 0, modelWindow |-> 0],
     [override |-> 0, modelWindow |-> -1],
     [override |-> -1, modelWindow |-> 50],
     [override |-> 100, modelWindow |-> 50],
     [override |-> 0, modelWindow |-> 200]}

PruneInit ==
    /\ NoFlushLedger
    /\ call = NoCall
    /\ messages = <<>>
    /\ cfg \in PruneConfigs
    /\ entries = <<>>
    /\ runtime = NoSnapshotRuntime
    /\ pruning = startedPruningRuntime(cfg, "time")
    /\ nextId = 0
    /\ addedSince = 0
    /\ seenSince = EmptyTracker
    /\ last = Idle("start")

\* The turns a transcript is built from; the short tool result is a
\* screenshot with a caption in the sessions of MediaConfig.
PruneAlphabet(id) ==
    {UserMessage("hi"),
     AssistantMessage(<<TextBlock("ok")>>),
     ToolResultMessage(id, "exec", <<TextBlock(ExecText)>>),
     IF cfg = MediaConfig
     THEN ToolResultMessage(id, "exec", <<TextBlock("ok"), ImageBlock>>)
     ELSE ToolResultMessage(id, "exec", <<TextBlock("ok")>>)}

AddMessage ==
    \E m \in PruneAlphabet(ToolId(nextId + 1)) :
        /\ Len(messages) + 1 <= MaxPruneMessages
        /\ messages' = Append(messages, m)
        /\ nextId' = IF m.role = "toolResult" THEN nextId + 1 ELSE nextId
        /\ last' = Idle("turn")
        /\ UNCHANGED <<runtime, pruning, entries, cfg, addedSince, seenSince>>
        /\ UNCHANGED <<flushVars, callVars>>

Prune ==
    \E w \in WindowInputs :
    \E prn \in {pruneContextMessages(messages, pruning.settings,
                                     w.modelWindow, w.override)} :
            /\ last' = [op |-> "prune", before |-> runtime, added |-> 0,
                        expiry |-> NoExpiry,
                        afterExpiry |-> messages,
                        prune |-> [ran |-> TRUE, same |-> prn.same,
                                   trimmed |-> prn.trimmed, cleared |-> prn.cleared],
                        window |-> w,
                        afterSoft |-> prn.soft,
                        output |-> prn.messages,
                        returned |-> ~prn.same, fault |-> "none"]
            /\ UNCHANGED <<messages, runtime, pruning, entries, cfg, nextId,
                           addedSince, seenSince>>
            /\ UNCHANGED <<flushVars, callVars>>

PruneNext == AddMessage \/ Prune

PruneSpec == PruneInit /\ [][PruneNext]_vars

----------------------------------------------------------------------------
(* The flush decisions of a session: the host records the token usage of     *)
(* each model call in the ledger entry, compaction advances the generation,  *)
(* and before a run the host asks shouldRunMemoryFlush; when it says true    *)
(* the host runs the flush and records the generation it flushed.            *)

FlushInit ==
    /\ messages = <<>>
    /\ cfg = BaseConfig
    /\ entries = <<>>
    /\ runtime = NoSnapshotRuntime
    /\ pruning = NoPruningRuntime(BaseConfig)
    /\ nextId = 0
    /\ addedSince = 0
    /\ seenSince = EmptyTracker
    /\ last = Idle("start")
    /\ \E settings \in FlushSettings : ledger = [entry |-> NoEntry, settings |-> settings]
    /\ flushes = [g \in 0..MaxCompactions |-> 0]
    /\ decision = NoDecision
    /\ call = NoCall

RecordUsage ==
    \E total \in TokenTotals, fresh \in {"absent", "true", "false"} :
        /\ ledger' = [ledger EXCEPT !.entry =
                         FlushLedgerEntry(total, fresh, @.compactionCount,
                                          @.memoryFlushCompactionCount)]
        /\ decision' = NoDecision
        /\ UNCHANGED <<flushes, sessionVars, callVars>>

Compact ==
    /\ ledger.entry.present
    /\ ledger.entry.compactionCount < MaxCompactions
    /\ ledger' = [ledger EXCEPT !.entry.compactionCount = @ + 1]
    /\ decision' = NoDecision
    /\ UNCHANGED <<flushes, sessionVars, callVars>>

DecideFlush ==
    LET signal == shouldRunMemoryFlush(ledger.entry, ledger.settings)
    IN  /\ decision' = [made |-> TRUE, signal |-> signal, entry |-> ledger.entry]
        /\ IF signal
           THEN /\ ledger' = [ledger EXCEPT !.entry.memoryFlushCompactionCount =
                                 ledger.entry.compactionCount]
                /\ flushes' = [flushes EXCEPT ![ledger.entry.compactionCount] = @ + 1]
           ELSE UNCHANGED <<ledger, flushes>>
        /\ UNCHANGED <<sessionVars, callVars>>

FlushNext == RecordUsage \/ Compact \/ DecideFlush

FlushSpec == FlushInit /\ [][FlushNext]_vars

----------------------------------------------------------------------------
(* Direct calls of the functions that take no session state: the arguments  *)
(* are drawn when the call is set up, the call computes the result.         *)

SeqsUpTo(S, n) == UNION {[1..k -> S] : k \in 0..n}

CallInputs ==
    LET toolCalls == {AssistantMessage(<<ToolCallBlock(id, "browser", args)>>) :
                          id \in {"t1", "t2"},
                          args \in {Args("snapshot", "{}"), Args("Snapshot", "{}"),
                                    Args("status", "{}"), Args("", "{}"), NoArgs}}
        results == {ToolResultMessage(id, name, <<TextBlock(SnapshotText)>>) :
                        id \in {"t1", ""}, name \in {"browser", " Browser\n", "exec"}}
                   \cup {ToolResultMessage("t1", "browser", <<TextBlock(
                            "url: https://example.com\ntitle: Example\n<main>\n  button [e1]\n</main>")>>),
                         ToolResultMessage("t1", "browser", <<TextBlock(
                            "{\"running\":true,\"tabs\":1}")>>)}
                   \cup {UserMessage("hi"), AssistantMessage(<<TextBlock("ok")>>)}
        patterns == SeqsUpTo({"exec", " EX* ", " "}, MaxPatterns)
        logEntries == {StateEntry({"t1"}), StateEntry({"t2", "t3"}),
                       [StateEntry({}) EXCEPT !.data.isArray = FALSE],
                       [StateEntry({"t4"}) EXCEPT !.customType = "model-snapshot"],
                       [StateEntry({"t5"}) EXCEPT !.type = "message"]}
        blocks == {TextBlock("ab"), TextBlock("hello"), ImageBlock}
    IN  {[fn |-> "isBrowserSnapshotToolResult", done |-> FALSE, result |-> "pending",
          args |-> [message |-> m, messages |-> ms]] :
            m \in results, ms \in SeqsUpTo(toolCalls, MaxCalls)}
        \cup
        {[fn |-> "isToolPrunable", done |-> FALSE, result |-> "pending",
          args |-> [match |-> [allow |-> a, deny |-> d], toolName |-> n]] :
            a \in patterns, d \in patterns,
            n \in {"exec", " Exec ", "browser", "read"}}
        \cup
        {[fn |-> "readBrowserSnapshotExpiredIds", done |-> FALSE, result |-> "pending",
          args |-> [readable |-> r, log |-> l]] :
            r \in BOOLEAN, l \in SeqsUpTo(logEntries, MaxEntries)}
        \cup
        {[fn |-> "estimateMessageChars", done |-> FALSE, result |-> "pending",
          args |-> [message |-> [role |-> r, content |-> c,
                                 toolCallId |-> IF r = "toolResult" THEN "t1" ELSE "",
                                 toolName |-> IF r = "toolResult" THEN "exec" ELSE ""]]] :
            r \in {"user", "toolResult"}, c \in SeqsUpTo(blocks, MaxBlocks)}

CallInit ==
    /\ NoFlushLedger
    /\ messages = <<>>
    /\ cfg = BaseConfig
    /\ entries = <<>>
    /\ runtime = NoSnapshotRuntime
    /\ pruning = NoPruningRuntime(BaseConfig)
    /\ nextId = 0
    /\ addedSince = 0
    /\ seenSince = EmptyTracker
    /\ last = Idle("start")
    /\ call \in CallInputs

ClassifyCall ==
    /\ call.fn = "isBrowserSnapshotToolResult" /\ ~call.done
    /\ call' = [call EXCEPT !.done = TRUE,
                   !.result = isBrowserSnapshotToolResult(call.args.message,
                                                          call.args.messages)]
    /\ UNCHANGED <<sessionVars, flushVars>>

PrunableCall ==
    /\ call.fn = "isToolPrunable" /\ ~call.done
    /\ call' = [call EXCEPT !.done = TRUE,
                   !.result = makeToolPrunablePredicate(call.args.match,
                                                        call.args.toolName)]
    /\ UNCHANGED <<sessionVars, flushVars>>

\* A session manager without getEntries, or whose getEntries throws, gives
\* the empty set.
ReadCall ==
    /\ call.fn = "readBrowserSnapshotExpiredIds" /\ ~call.done
    /\ call' = [call EXCEPT !.done = TRUE,
                   !.result = IF call.args.readable
                              THEN readBrowserSnapshotExpiredIds(call.args.log)
                              ELSE {}]
    /\ UNCHANGED <<sessionVars, flushVars>>

EstimateCall ==
    /\ call.fn = "estimateMessageChars" /\ ~call.done
    /\ call' = [call EXCEPT !.done = TRUE,
                   !.result = estimateMessageChars(call.args.message)]
    /\ UNCHANGED <<sessionVars, flushVars>>

CallNext == ClassifyCall \/ PrunableCall \/ ReadCall \/ EstimateCall

CallSpec == CallInit /\ [][CallNext]_vars

----------------------------------------------------------------------------
(* Vocabulary of the properties.  Positions are 1-based here.               *)

\* A pass of expireBrowserSnapshots ran with the feature enabled.
PassRan ==
    \/ last.op = "tick" /\ last.before.settings.enabled
    \/ last.op = "context" /\ last.expiry.ran

Threshold == last.before.settings.toolCalls

ToolResults == {i \in 1..Len(messages) : messages[i].role = "toolResult"}

\* Tool results of a browser call with action "snapshot" in the transcript.
SnapshotTurns ==
    {i \in ToolResults :
        \E j \in 1..Len(messages) : messages[j] = SnapshotCall(messages[i].toolCallId)}

\* Snapshot turns that were neither Tracked nor Expired when the pass began.
Candidates ==
    {i \in SnapshotTurns :
        /\ messages[i].toolCallId \notin DOMAIN last.before.tracker
        /\ messages[i].toolCallId \notin last.before.expiredIds}

\* The ids the last pass expired.
ExpiredByPass == runtime.expiredIds \ last.before.expiredIds

PlaceholderContent ==
    <<[type |-> "text", text |-> "[Browser snapshot expired - content cleared]",
       id |-> "", name |-> "", args |-> NoArgs]>>

ShowsPlaceholder(out, i) == out[i].content = PlaceholderContent

Retired(id) == id \notin DOMAIN runtime.tracker /\ id \in runtime.expiredIds

\* 0-based index i lies before the first user turn, or at or after the K-th
\* assistant turn counted from the end (fewer than K assistant turns follow it).
ProtectedIndex(i, K) ==
    \/ \A j \in 0..i : messages[j + 1].role # "user"
    \/ /\ K > 0
       /\ Cardinality({j \in (i + 1)..(Len(messages) - 1) :
              messages[j + 1].role = "assistant"}) < K

----------------------------------------------------------------------------
(* C1: an id of the ExpiredIdSet, added in memory or loaded from the         *)
(* session log when the process starts, stays in the set and is never put    *)
(* into the tracker by a later pass or restart, even while its tool result   *)
(* in the transcript still holds the snapshot.                               *)

C6_ExpiredStaysCleared ==
    last.op = "context" =>
        \A i \in ToolResults :
            messages[i].toolCallId \in runtime.expiredIds
                => ShowsPlaceholder(last.output, i)

(* C7: the tool result of every artifact a pass expires has, in the          *)
(* returned transcript, a content of exactly one text block holding          *)
(* "[Browser snapshot expired - content cleared]", whatever the content      *)
(* was and whatever the counter and the threshold are.                       *)

C7_StaticPlaceholder ==
    (PassRan /\ last.op = "tick") =>
        \A i \in ToolResults :
            messages[i].toolCallId \in ExpiredByPass
                => ShowsPlaceholder(last.output, i)

\* A pass expired, at threshold 3, a snapshot whose content was a text and
\* a screenshot.
C7_Witness ==
    /\ PassRan /\ last.op = "tick"
    /\ Threshold = 3
    /\ \E i \in ToolResults :
           /\ messages[i].toolCallId \in ExpiredByPass
           /\ messages[i].content = <<TextBlock("page"), ImageBlock>>
           /\ messages[i].toolCallId \in DOMAIN last.before.tracker
           /\ last.before.tracker[messages[i].toolCallId] + last.added >= 3

(* C8: with settings.enabled = false a call returns the transcript it was    *)
(* given, by identity, and leaves the tracker, the ExpiredIdSet and both     *)
(* watermarks as they were.                                                  *)

C8_DisabledIsNoOp ==
    (last.op = "tick" /\ ~last.before.settings.enabled) =>
        /\ ~last.returned
        /\ last.output = messages
        /\ runtime = last.before

\* A disabled call on a transcript with two snapshots and new turns.
C8_Witness ==
    /\ last.op = "tick" /\ ~last.before.settings.enabled
    /\ Cardinality(SnapshotTurns) >= 2
    /\ last.added > 0

(* C9: the pruner (soft trim and hard clear) replaces no turn before the     *)
(* first user turn and none at or after the protected-tail cutoff; with no   *)
(* user turn, or fewer than K > 0 assistant turns, it returns the            *)
(* transcript it was given.                                                  *)

C9_PrunerKeepsHeadAndTail ==
    last.op = "prune" =>
        /\ \A i \in 0..(Len(messages) - 1) :
               ProtectedIndex(i, cfg.keepLastAssistants)
                   => last.output[i + 1] = messages[i + 1]
        /\ (\/ CountRole(messages, "user") = 0
            \/ /\ cfg.keepLastAssistants > 0
               /\ CountRole(messages, "assistant") < cfg.keepLastAssistants)
               => ~last.returned /\ last.output = messages

\* The pruner replaced a turn while an equally large tool result stood
\* before the first user turn and another in the protected tail.
C9_Witness ==
    /\ last.op = "prune" /\ last.returned
    /\ cfg.keepLastAssistants > 0
    /\ \E i, j, k \in 0..(Len(messages) - 1) :
           /\ last.output[k + 1] # messages[k + 1]
           /\ messages[i + 1] # messages[k + 1]
           /\ messages[i + 1].content = messages[k + 1].content
           /\ messages[j + 1].content = messages[k + 1].content
           /\ \A u \in 0..i : messages[u + 1].role # "user"
           /\ \E u \in 0..j : messages[u + 1].role = "user"
           /\ ProtectedIndex(j, cfg.keepLastAssistants)

(* C10 as stated: the transcript returned from a turn (snapshot expiry, then *)
(* the pruner) leaves every turn before the first user turn, and every turn  *)
(* at or after the K-th assistant turn from the end, identical to the input. *)

C10_EngineKeepsHeadAndTail ==
    last.op = "context" =>
        \A i \in 0..(Len(messages) - 1) :
            ProtectedIndex(i, cfg.keepLastAssistants)
                => last.output[i + 1] = messages[i + 1]

(* C10 amended: in the transcript returned from a turn, every turn before    *)
(* the first user turn, and every turn at or after the K-th assistant turn   *)
(* from the end, is identical to the input turn unless it is the tool        *)
(* result of a snapshot that snapshot expiry expired in this turn, which     *)
(* holds the expired placeholder; the pruner replaces none of these turns.   *)

C10_OnlyExpiryTouchesHeadAndTail ==
    last.op = "context" =>
        \A i \in 0..(Len(messages) - 1) :
            ProtectedIndex(i, cfg.keepLastAssistants) =>
                /\ last.output[i + 1] = last.afterExpiry[i + 1]
                /\ \/ last.output[i + 1] = messages[i + 1]
                   \/ /\ messages[i + 1].role = "toolResult"
                      /\ messages[i + 1].toolCallId \in ExpiredByPass
                      /\ last.output[i + 1] =
                             [messages[i + 1] EXCEPT !.content = PlaceholderContent]

\* Snapshot expiry replaced a turn of the protected tail, and the pruner ran
\* on the result and replaced another turn.
C10_Witness ==
    /\ last.op = "context" /\ last.prune.ran /\ ~last.prune.same
    /\ \E i \in 0..(Len(messages) - 1) :
           /\ ProtectedIndex(i, cfg.keepLastAssistants)
           /\ last.output[i + 1] # messages[i + 1]

----------------------------------------------------------------------------
(* Vocabulary of the pruner's properties *)

\* The window of the last pruner call, in tokens and in characters.
WindowTokens ==
    IF last.window.override > 0 THEN last.window.override ELSE last.window.modelWindow

WindowChars == WindowTokens * 4

\* 0-based indexes of the tool results the pruner may replace.
EligibleIndexes ==
    {i \in 0..(Len(messages) - 1) :
        /\ messages[i + 1].role = "toolResult"
        /\ ~ProtectedIndex(i, cfg.keepLastAssistants)
        /\ \A b \in Range(messages[i + 1].content) : b.type # "image"}

\* An eligible tool result longer than softTrim.maxChars.
LongEligibleIndexes ==
    {i \in EligibleIndexes : messages[i + 1].content = <<TextBlock(ExecText)>>}

(* C11: if the effective window (the override when it is a positive number,  *)
(* otherwise the model's context window) is absent or <= 0, the pruner       *)
(* returns the transcript it was given, by identity.                         *)

C11_NoWindowIsIdentity ==
    (last.op = "prune" /\ WindowTokens <= 0) =>
        ~last.returned /\ last.output = messages

\* A call with an absent or negative override and a negative model window,
\* on a transcript of five turns with a long eligible tool result.
C11_Witness ==
    /\ last.op = "prune"
    /\ last.window.override <= 0 /\ last.window.modelWindow < 0
    /\ LongEligibleIndexes # {}
    /\ Len(messages) = 5

(* C12: if the estimated size of the transcript divided by the window in     *)
(* characters is below the soft-trim ratio, the pruner returns the input by  *)
(* identity and replaces no turn, whatever the sizes of the tool results.    *)

C12_BelowSoftRatioIsIdentity ==
    (/\ last.op = "prune"
     /\ WindowTokens > 0
     /\ estimateContextChars(messages) * 100 < cfg.softTrimRatio * WindowChars)
        => ~last.returned /\ last.output = messages

\* A call below the soft-trim ratio on a transcript with an eligible tool
\* result longer than softTrim.maxChars.
C12_Witness ==
    /\ last.op = "prune"
    /\ WindowTokens > 0
    /\ estimateContextChars(messages) * 100 < cfg.softTrimRatio * WindowChars
    /\ LongEligibleIndexes # {}
    /\ ~last.returned

\* Estimated size of the turns of msgs at the 0-based indexes S.
RECURSIVE SizeOfTurns(_, _)
SizeOfTurns(msgs, S) ==
    IF S = {} THEN 0
    ELSE LET i == CHOOSE i \in S : TRUE
         IN  estimateMessageChars(msgs[i + 1]) + SizeOfTurns(msgs, S \ {i})

\* The turns the last call replaced after soft trim.
HardCleared ==
    {i \in 0..(Len(messages) - 1) : last.output[i + 1] # last.afterSoft[i + 1]}

HardClearContent ==
    <<[type |-> "text", text |-> "[Old tool result content cleared]",
       id |-> "", name |-> "", args |-> NoArgs]>>

\* The ratio after soft trim is at or above the hard-clear ratio.
AtHardRatioAfterSoftTrim ==
    /\ WindowTokens > 0
    /\ estimateContextChars(last.afterSoft) * 100 >= cfg.hardClearRatio * WindowChars

\* The eligible entries, after soft trim, sum to at least minPrunableToolChars.
EnoughEligibleChars ==
    SizeOfTurns(last.afterSoft, EligibleIndexes) >= cfg.minPrunableToolChars

(* C13: the pruner replaces a turn with the hard-clear placeholder only if   *)
(* hard clear is enabled, the ratio recomputed after soft trim is at or      *)
(* above the hard-clear ratio, and the eligible entries after soft trim sum  *)
(* to at least minPrunableToolChars; otherwise it returns the soft-trimmed   *)
(* result.                                                                   *)

C13_HardClearGuards ==
    last.op = "prune" =>
        /\ \A i \in HardCleared :
               /\ last.output[i + 1].content = HardClearContent
               /\ cfg.hardClear.enabled
               /\ AtHardRatioAfterSoftTrim
               /\ EnoughEligibleChars
        /\ ~(cfg.hardClear.enabled /\ AtHardRatioAfterSoftTrim /\ EnoughEligibleChars)
               => last.output = last.afterSoft

\* Hard clear is enabled and the ratio after soft trim is at the hard-clear
\* ratio, but the one eligible entry, soft-trimmed, is below
\* minPrunableToolChars: the soft-trimmed result is returned.
C13_Witness ==
    /\ last.op = "prune"
    /\ cfg.hardClear.enabled
    /\ AtHardRatioAfterSoftTrim
    /\ EligibleIndexes # {}
    /\ ~EnoughEligibleChars
    /\ last.prune.trimmed # {}
    /\ last.returned
    /\ last.output = last.afterSoft

\* The soft-trimmed transcript with the eligible entries older than index i
\* replaced by the hard-clear placeholder.
ClearedBefore(i) ==
    [k \in 1..Len(messages) |->
        IF (k - 1) \in EligibleIndexes /\ k - 1 < i
        THEN [last.afterSoft[k] EXCEPT !.content = HardClearContent]
        ELSE last.afterSoft[k]]

\* The ratio recomputed just before entry i is at or above the hard-clear ratio.
AtHardRatioBefore(i) ==
    estimateContextChars(ClearedBefore(i)) * 100 >= cfg.hardClearRatio * WindowChars

(* C14: hard clear goes oldest-first and stops early: the turns it clears    *)
(* are a prefix of the eligible entries in transcript order, an entry is     *)
(* cleared only if the ratio recomputed just before it is still at or above  *)
(* the hard-clear ratio, and no entry after the first point where the ratio  *)
(* is below the hard-clear ratio is cleared.                                 *)

C14_HardClearOldestFirst ==
    last.op = "prune" =>
        /\ HardCleared \subseteq EligibleIndexes
        /\ \A i \in HardCleared : \A j \in EligibleIndexes :
               j < i => j \in HardCleared
        /\ \A i \in HardCleared : AtHardRatioBefore(i)
        /\ \A j \in EligibleIndexes :
               ~AtHardRatioBefore(j)
                   => \A i \in EligibleIndexes : i >= j => i \notin HardCleared

\* Hard clear replaced the oldest eligible entry and stopped before a newer
\* one, the ratio having fallen below the hard-clear ratio.
C14_Witness ==
    /\ last.op = "prune"
    /\ \E i, j \in EligibleIndexes :
           /\ i < j
           /\ i \in HardCleared
           /\ j \notin HardCleared
           /\ AtHardRatioBefore(i)
           /\ ~AtHardRatioBefore(j)

(* C15: every replacement the engine makes is size-reducing: for each turn   *)
(* replaced by soft trim, hard clear or snapshot expiry the estimated size   *)
(* of the replacement is not larger than that of the original, so the        *)
(* estimated size of the returned transcript never exceeds the input's.      *)

C15_ReplacementsShrink ==
    last.op = "prune" =>
        /\ \A k \in 1..Len(messages) :
               estimateMessageChars(last.output[k]) <= estimateMessageChars(messages[k])
        /\ estimateContextChars(last.output) <= estimateContextChars(messages)

----------------------------------------------------------------------------
(* Vocabulary of the flush trigger's properties: the entry and the settings  *)
(* of the last decision.                                                     *)

Decided == decision.made

Trigger ==
    ledger.settings.contextWindowTokens - ledger.settings.reserveTokensFloor
        - ledger.settings.softThresholdTokens

Measured ==
    /\ decision.entry.present
    /\ decision.entry.totalTokens # Null
    /\ decision.entry.totalTokens # 0

Fresh == decision.entry.totalTokensFresh # "false"

FlushedThisGeneration ==
    /\ decision.entry.memoryFlushCompactionCount # Null
    /\ decision.entry.memoryFlushCompactionCount = decision.entry.compactionCount

IsSettings(window, reserve, soft) ==
    ledger.settings = [contextWindowTokens |-> window, reserveTokensFloor |-> reserve,
                       softThresholdTokens |-> soft]

(* C16: when the entry is present, measured, fresh and not yet flushed for   *)
(* its generation, shouldFlush is true if and only if totalTokens >=         *)
(* contextWindowTokens - reserveTokensFloor - softThresholdTokens, the       *)
(* boundary included: window 100, reserve 10, soft 5, total 85 gives true;   *)
(* window 100 000, reserve 20 000, soft 10 000, total 10 000 gives false.    *)

C16_TriggerIsInclusive ==
    (Decided /\ Measured /\ Fresh /\ ~FlushedThisGeneration) =>
        /\ decision.signal <=> decision.entry.totalTokens >= Trigger
        /\ (IsSettings(100, 10, 5) /\ decision.entry.totalTokens = 85)
               => decision.signal
        /\ (IsSettings(100, 20, 10) /\ decision.entry.totalTokens = 10)
               => ~decision.signal

\* The decision at the boundary: window 100, reserve 10, soft 5, total 85.
C16_Witness ==
    /\ Decided /\ Measured /\ Fresh /\ ~FlushedThisGeneration
    /\ IsSettings(100, 10, 5)
    /\ decision.entry.totalTokens = 85
    /\ decision.signal

(* C17: if the entry's totalTokensFresh is explicitly false, shouldFlush is  *)
(* false for every totalTokens, window, reserve and threshold.               *)

C17_StaleNeverFlushes ==
    (Decided /\ decision.entry.totalTokensFresh = "false") => ~decision.signal

\* A stale total above the trigger, not yet flushed for its generation.
C17_Witness ==
    /\ Decided /\ Measured /\ ~FlushedThisGeneration
    /\ decision.entry.totalTokensFresh = "false"
    /\ decision.entry.totalTokens > Trigger
    /\ decision.entry.compactionCount = 1
    /\ ~decision.signal

(* C18: shouldFlush is false whenever usage is not yet measured: the entry   *)
(* is absent, or its totalTokens is zero or missing, whatever the window,    *)
(* reserve floor and soft threshold are, also when the trigger is zero or    *)
(* negative.                                                                 *)

C18_UnmeasuredNeverFlushes ==
    (Decided /\ ~Measured) => ~decision.signal

\* A fresh entry with totalTokens 0 decided under a negative trigger.
C18_Witness ==
    /\ Decided
    /\ decision.entry.present
    /\ decision.entry.totalTokens = 0
    /\ Fresh /\ ~FlushedThisGeneration
    /\ Trigger < 0
    /\ ~decision.signal

(* C19: if the entry's memoryFlushCompactionCount equals its                 *)
(* compactionCount, shouldFlush is false however far totalTokens is above    *)
(* the trigger; an entry without memoryFlushCompactionCount is never         *)
(* treated as already flushed.                                               *)

C19_FlushedGenerationIsSkipped ==
    Decided =>
        /\ FlushedThisGeneration => ~decision.signal
        /\ (/\ decision.entry.memoryFlushCompactionCount = Null
            /\ Measured /\ Fresh
            /\ decision.entry.totalTokens >= Trigger)
               => decision.signal

\* A fresh total far above the trigger, decided in generation 2 after the
\* flush of generation 2.
C19_Witness ==
    /\ Decided /\ Measured /\ Fresh
    /\ FlushedThisGeneration
    /\ decision.entry.compactionCount = 2
    /\ decision.entry.totalTokens = 96
    /\ decision.entry.totalTokens > Trigger
    /\ ~decision.signal

(* C20: when the host records the current compactionCount in                 *)
(* memoryFlushCompactionCount after each flush it runs, a flush is           *)
(* signalled at most once for each value of compactionCount; a new signal    *)
(* needs compactionCount to have advanced.                                   *)

C20_OneFlushPerGeneration ==
    /\ \A g \in DOMAIN flushes : flushes[g] <= 1
    /\ (Decided /\ decision.signal) =>
           \A g \in DOMAIN flushes :
               (g > decision.entry.compactionCount) => flushes[g] = 0

\* Generations 0 and 1 were each flushed once, and a further decision in
\* generation 1, the total still above the trigger, signalled nothing.
C20_Witness ==
    /\ flushes[0] = 1 /\ flushes[1] = 1
    /\ Decided /\ Measured /\ Fresh
    /\ decision.entry.compactionCount = 1
    /\ decision.entry.totalTokens >= Trigger
    /\ ~decision.signal

----------------------------------------------------------------------------
(* C21: a step of the hook throws *)

\* C21 (as stated): whenever a step of the hook throws, be it snapshot
\* expiry, persistence or pruning, the hook returns no replacement and the
\* turn proceeds with the original transcript.
C21_ThrowReturnsOriginal ==
    last.fault # "none" => ~last.returned /\ last.output = messages

\* C21 (amended): when snapshot expiry or pruning throws, the hook returns no
\* replacement and the turn proceeds with the original transcript; a failed
\* append to the session log is swallowed inside appendBrowserSnapshotState,
\* the session log stays as it was, and the hook goes on to return the
\* transcript with the expired snapshots replaced.
C21_HookCatchesExpiryAndPruning ==
    /\ last.fault \in {"expiry", "pruning"} =>
           ~last.returned /\ last.output = messages
    /\ last.fault = "persistence" =>
           /\ last.returned
           /\ last.output # messages
           /\ last.expiry.expired # {}
           /\ \A i \in 1..Len(messages) :
                  (messages[i].toolCallId \in last.expiry.expired
                   /\ messages[i].role = "toolResult")
                  => last.output[i] # messages[i]
           /\ readBrowserSnapshotExpiredIds(entries) # runtime.expiredIds

\* C21 witness: pruning throws after the expiry pass of the same event has
\* expired a snapshot, and the hook still hands back the original transcript.
C21_Witness ==
    /\ last.fault = "pruning"
    /\ last.expiry.expired # {}
    /\ ~last.returned
    /\ last.output = messages

----------------------------------------------------------------------------
(* C22: the order of the two stages *)

\* C22: on every "context" event of a session with snapshot expiry enabled,
\* the expiry pass runs on the transcript, whether or not the session has a
\* pruning runtime (mode off, provider not eligible); the pruner runs only
\* for a cache-ttl pruning runtime of an eligible provider, and what it is
\* given is the output of the expiry pass: the hook's output is the pruner's
\* result on that output, or that output itself when the pruner did not run.
C22_ExpiryFirstThenPruner ==
    last.op = "context" =>
        /\ cfg.expiry.enabled => last.expiry.ran
        /\ last.expiry.ran =>
               last.afterExpiry = expireBrowserSnapshots(messages, last.before).messages
        /\ ~last.expiry.ran => last.afterExpiry = messages
        /\ last.prune.ran =>
               /\ pruning.present
               /\ pruning.settings.mode = "cache-ttl"
               /\ cfg.mode = "cache-ttl" /\ cfg.providerEligible
               /\ last.output =
                      pruneContextMessages(last.afterExpiry, pruning.settings,
                                           last.window.modelWindow,
                                           last.window.override).messages
        /\ ~last.prune.ran => last.output = last.afterExpiry
        /\ (cfg.mode # "cache-ttl" \/ ~cfg.providerEligible) => ~last.prune.ran

\* C22 witness: in one event the expiry pass expires a snapshot and the
\* pruner then changes the transcript it got from the pass.
C22_Witness ==
    /\ last.op = "context"
    /\ last.expiry.expired # {}
    /\ last.prune.ran
    /\ ~last.prune.same
    /\ last.afterExpiry # messages
    /\ last.output # last.afterExpiry

----------------------------------------------------------------------------
(* C23: what classifies as a snapshot *)

\* The first tool call with the id of message m in the assistant turns of ms
\* has arguments whose "action" (lower-cased first when `lowered`) is
\* "snapshot".
LooksUpSnapshotCall(m, ms, lowered) ==
    LET isCall(i, k) == /\ ms[i].role = "assistant"
                        /\ ms[i].content[k].type = "toolCall"
                        /\ ms[i].content[k].id = m.toolCallId
    IN  \E i \in 1..Len(ms) : \E k \in 1..Len(ms[i].content) :
            /\ isCall(i, k)
            /\ \A j \in 1..i : \A l \in 1..Len(ms[j].content) :
                   isCall(j, l) => (j = i /\ l >= k)
            /\ ~ms[i].content[k].args.isNull
            /\ "snapshot" = IF lowered THEN toLowerCase(ms[i].content[k].args.action)
                            ELSE ms[i].content[k].args.action

----------------------------------------------------------------------------
(* C24: the prunability predicate *)

\* C24 (as stated): the predicate is true for a tool name exactly when the
\* trimmed, lower-cased name matches no deny pattern and either the allow
\* list is empty or the name matches some allow pattern.
C24_DenyOverridesAllow ==
    (call.fn = "isToolPrunable" /\ call.done) =>
        LET name == toLowerCase(trim(call.args.toolName))
            hit(list) == \E k \in 1..Len(list) :
                             globMatches(name, toLowerCase(trim(list[k])))
        IN  call.result <=>
                /\ ~hit(call.args.match.deny)
                /\ (Len(call.args.match.allow) = 0 \/ hit(call.args.match.allow))

\* C24 (amended): patterns are trimmed and lower-cased and blank patterns are
\* dropped; the predicate is true for a tool name exactly when the trimmed,
\* lower-cased name matches no deny pattern and either the allow list holds
\* no pattern that is not blank or the name matches some allow pattern; a
\* name matching both a deny and an allow pattern is not prunable.
C24_DenyOverridesNonBlankAllow ==
    (call.fn = "isToolPrunable" /\ call.done) =>
        LET name == toLowerCase(trim(call.args.toolName))
            hit(list) == \E k \in 1..Len(list) :
                             /\ trim(list[k]) # ""
                             /\ globMatches(name, toLowerCase(trim(list[k])))
            blank(list) == \A k \in 1..Len(list) : trim(list[k]) = ""
        IN  /\ call.result <=>
                   /\ ~hit(call.args.match.deny)
                   /\ (blank(call.args.match.allow) \/ hit(call.args.match.allow))
            /\ (hit(call.args.match.deny) /\ hit(call.args.match.allow))
                   => ~call.result

\* C24 witness: " Exec " is denied by " EX* " and allowed by "exec", and is
\* not prunable.
C24_Witness ==
    /\ call.fn = "isToolPrunable"
    /\ call.done
    /\ ~call.result
    /\ call.args.toolName = " Exec "
    /\ call.args.match.deny = <<" EX* ">>
    /\ call.args.match.allow = <<"exec">>

----------------------------------------------------------------------------
(* C25: reading the persisted state *)

----------------------------------------------------------------------------
(* C26: the size estimate *)

\* C26: the size estimate of a turn is the sum of the lengths of its text
\* segments, plus one for each boundary between consecutive text segments,
\* plus IMAGE_CHAR_ESTIMATE for each media block.
C26_EstimateCountsSeparators ==
    (call.fn = "estimateMessageChars" /\ call.done) =>
        LET content == call.args.message.content
            images == {k \in 1..Len(content) : content[k].type = "image"}
        IN  call.result =
                estimateJoinedTextLength(collectTextSegments(content))
                + IMAGE_CHAR_ESTIMATE * Cardinality(images)

----------------------------------------------------------------------------
(* C27: copy-on-write of the transcript *)

\* C27: a tick leaves the input array as it was; it returns the input array
\* itself exactly when it replaced no turn; otherwise the returned array has
\* the length of the input, the tool results of the ids the tick expired are
\* copies that differ from the input turn in their content only, and every
\* other position holds the input's turn.
C27_TickCopiesOnWrite ==
    [][last'.op = "tick" =>
          LET out == last'.output
              gone == runtime'.expiredIds \ runtime.expiredIds
              replaced == {i \in 1..Len(messages) :
                              /\ messages[i].role = "toolResult"
                              /\ messages[i].toolCallId \in gone}
          IN  /\ messages' = messages
              /\ Len(out) = Len(messages)
              /\ last'.expiry.same <=> replaced = {}
              /\ last'.expiry.same <=> out = messages
              /\ last'.returned <=> ~last'.expiry.same
              /\ \A i \in 1..Len(messages) :
                     IF i \in replaced
                     THEN /\ out[i] # messages[i]
                          /\ out[i] = [messages[i] EXCEPT !.content = out[i].content]
                     ELSE out[i] = messages[i]]_vars

\* C27 witness: a tick returned a copy in which one snapshot result is
\* replaced while another tool result and a user turn are the input's.
C27_Witness ==
    /\ last.op = "tick"
    /\ ~last.expiry.same
    /\ \E i, j, k \in 1..Len(messages) :
           /\ last.output[i] # messages[i]
           /\ messages[j].role = "toolResult" /\ last.output[j] = messages[j]
           /\ messages[k].role = "user" /\ last.output[k] = messages[k]

----------------------------------------------------------------------------
(* C28: the soft-trim pass *)

\* C28 (as stated): when the soft-trim pass runs, every eligible tool result
\* whose joined text is longer than softTrim.maxChars is replaced by a single
\* text block made of the head excerpt, "...", the tail excerpt and the note
\* with the kept counts and the original length; the eligible results at or
\* below maxChars are left as they are.  (The eligible results of the
\* transcripts hold one text block.)
C28_SoftTrimAboveMaxChars ==
    (/\ last.op = "prune"
     /\ WindowTokens > 0
     /\ findAssistantCutoffIndex(messages, cfg.keepLastAssistants) # Null
     /\ estimateContextChars(messages) * 100 >= cfg.softTrimRatio * WindowChars)
        => \A i \in EligibleIndexes :
               LET text == messages[i + 1].content[1].text
                   h == cfg.softTrim.headChars
                   t == cfg.softTrim.tailChars
               IN  IF Len(text) > cfg.softTrim.maxChars
                   THEN /\ i \in last.prune.trimmed
                        /\ last.afterSoft[i + 1] =
                               [messages[i + 1] EXCEPT !.content =
                                   <<TextBlock(
                                       SubSeq(text, 1, h) \o "\n...\n"
                                       \o SubSeq(text, Len(text) - t + 1, Len(text))
                                       \o "\n\n[Tool result trimmed: kept first "
                                       \o ToString(h) \o " chars and last "
                                       \o ToString(t) \o " chars of "
                                       \o ToString(Len(text)) \o " chars.]")>>]
                   ELSE /\ i \notin last.prune.trimmed
                        /\ last.afterSoft[i + 1] = messages[i + 1]

\* C28 (amended): when the soft-trim pass runs, every eligible tool result
\* whose joined text is longer than softTrim.maxChars and longer than
\* headChars + tailChars is replaced by a single text block made of the head
\* excerpt, "...", the tail excerpt and the note with the kept counts and the
\* original length; every other eligible result, and every turn that is not
\* eligible, is left as it is by the pass.
C28_SoftTrimAboveMaxCharsAndExcerpts ==
    (/\ last.op = "prune"
     /\ WindowTokens > 0
     /\ findAssistantCutoffIndex(messages, cfg.keepLastAssistants) # Null
     /\ estimateContextChars(messages) * 100 >= cfg.softTrimRatio * WindowChars)
        => \A i \in 0..(Len(messages) - 1) :
               LET text == messages[i + 1].content[1].text
                   h == cfg.softTrim.headChars
                   t == cfg.softTrim.tailChars
               IN  IF /\ i \in EligibleIndexes
                      /\ Len(text) > cfg.softTrim.maxChars
                      /\ Len(text) > h + t
                   THEN /\ i \in last.prune.trimmed
                        /\ last.afterSoft[i + 1] =
                               [messages[i + 1] EXCEPT !.content =
                                   <<TextBlock(
                                       SubSeq(text, 1, h) \o "\n...\n"
                                       \o SubSeq(text, Len(text) - t + 1, Len(text))
                                       \o "\n\n[Tool result trimmed: kept first "
                                       \o ToString(h) \o " chars and last "
                                       \o ToString(t) \o " chars of "
                                       \o ToString(Len(text)) \o " chars.]")>>]
                   ELSE /\ i \notin last.prune.trimmed
                        /\ last.afterSoft[i + 1] = messages[i + 1]

\* C28 witness: one pass trimmed a long eligible result to its excerpts and
\* left a short eligible result as it was.
C28_Witness ==
    /\ last.op = "prune"
    /\ \E i, j \in EligibleIndexes :
           /\ i \in last.prune.trimmed
           /\ Len(last.afterSoft[i + 1].content[1].text)
                  < Len(messages[i + 1].content[1].text)
           /\ j \notin last.prune.trimmed
           /\ messages[j + 1].content = <<TextBlock("ok")>>
           /\ last.afterSoft[j + 1] = messages[j + 1]

----------------------------------------------------------------------------
(* C29: tool results with media *)

\* C29: a tool result that contains an image block is replaced neither by
\* soft trim nor by hard clear and is not counted in the eligible total of
\* the hard-clear gate, yet each of its image blocks adds IMAGE_CHAR_ESTIMATE
\* to the total that is compared with the soft-trim and hard-clear ratios:
\* the pass runs, and hard clear goes ahead, exactly when the total with the
\* images counted is at the ratio.
C29_MediaResultsKeptButCounted ==
    (/\ last.op = "prune"
     /\ WindowTokens > 0
     /\ findAssistantCutoffIndex(messages, cfg.keepLastAssistants) # Null)
        => LET images(m) == Cardinality({k \in 1..Len(m.content) :
                                            m.content[k].type = "image"})
               media == {i \in 0..(Len(messages) - 1) :
                            /\ messages[i + 1].role = "toolResult"
                            /\ images(messages[i + 1]) > 0}
               Size(ms) ==
                   LET upTo[k \in 0..Len(ms)] ==
                           IF k = 0 THEN 0
                           ELSE upTo[k - 1] + SumLen(collectTextSegments(ms[k].content))
                                + IMAGE_CHAR_ESTIMATE * images(ms[k])
                   IN  upTo[Len(ms)]
               atSoft == Size(messages) * 100 >= cfg.softTrimRatio * WindowChars
               atHard == Size(last.afterSoft) * 100 >= cfg.hardClearRatio * WindowChars
               trimmable == {i \in EligibleIndexes :
                                LET n == Len(messages[i + 1].content[1].text)
                                IN  /\ n > cfg.softTrim.maxChars
                                    /\ n > cfg.softTrim.headChars + cfg.softTrim.tailChars}
           IN  /\ \A i \in media :
                      /\ i \notin last.prune.trimmed \cup last.prune.cleared
                      /\ last.afterSoft[i + 1] = messages[i + 1]
                      /\ last.output[i + 1] = messages[i + 1]
               /\ last.prune.trimmed = IF atSoft THEN trimmable ELSE {}
               /\ HardCleared # {} <=>
                      /\ atSoft /\ atHard
                      /\ cfg.hardClear.enabled
                      /\ EligibleIndexes # {}
                      /\ SizeOfTurns(last.afterSoft, EligibleIndexes \ media)
                             >= cfg.minPrunableToolChars

\* C29 witness: the texts of the transcript alone are below the soft-trim
\* ratio, the screenshot lifts the total above both ratios, a long result is
\* soft-trimmed, the screenshot stays, and hard clear is held back because
\* the eligible total, which leaves the screenshot out, is below
\* minPrunableToolChars.
C29_Witness ==
    /\ last.op = "prune"
    /\ WindowTokens > 0
    /\ cfg = MediaConfig
    /\ last.prune.trimmed # {}
    /\ HardCleared = {}
    /\ (estimateContextChars(messages) - IMAGE_CHAR_ESTIMATE) * 100
           < cfg.softTrimRatio * WindowChars
    /\ estimateContextChars(last.afterSoft) * 100 >= cfg.hardClearRatio * WindowChars
    /\ \E i \in 1..Len(messages) :
           /\ messages[i].content = <<TextBlock("ok"), ImageBlock>>
           /\ ~ProtectedIndex(i - 1, cfg.keepLastAssistants)
           /\ last.output[i] = messages[i]

----------------------------------------------------------------------------
(* C30: the turns that follow a snapshot in the tick that registers it *)

\* C30: the last new snapshot of a tick is Tracked with callsSince = 0
\* however many tool-result or user turns follow it in the transcript of that
\* tick, and (the threshold being at least 1) it is not expired in that tick;
\* a snapshot expired by a tick that sees no newer snapshot has had at least
\* `threshold` tool-result or user turns added in the ticks after the one
\* that registered it.
C30_RegisteredAtZero ==
    (PassRan /\ last.op = "tick") =>
        /\ Threshold >= 1
        /\ Candidates # {} =>
               LET newest == CHOOSE i \in Candidates : \A j \in Candidates : j <= i
                   id == messages[newest].toolCallId
               IN  /\ id \in DOMAIN runtime.tracker
                   /\ runtime.tracker[id] = 0
                   /\ id \notin runtime.expiredIds
                   /\ last.output[newest] = messages[newest]
        /\ Candidates = {} =>
               \A id \in ExpiredByPass :
                   /\ id \in DOMAIN last.before.tracker
                   /\ id \in DOMAIN seenSince
                   /\ seenSince[id] >= Threshold

\* C30 witness: the tick that registers a snapshot finds it followed by as
\* many user and tool-result turns as the threshold (2), and tracks it with
\* callsSince 0.
C30_Witness ==
    /\ PassRan /\ last.op = "tick"
    /\ Threshold = 2
    /\ \E i \in Candidates :
           /\ Cardinality({j \in (i + 1)..Len(messages) :
                  messages[j].role \in {"toolResult", "user"}}) >= 2
           /\ \E j \in (i + 1)..Len(messages) : messages[j].role = "user"
           /\ \E j \in (i + 1)..Len(messages) : messages[j].role = "toolResult"
           /\ messages[i].toolCallId \in DOMAIN runtime.tracker
           /\ runtime.tracker[messages[i].toolCallId] = 0
           /\ last.output[i] = messages[i]

----------------------------------------------------------------------------
(* C31: what the handler writes to the session log *)

\* C31: a call of the "context" handler appends a state record exactly when
\* the set of expired ids gained an id in that call; the record is one entry
\* at the end of the log and lists the whole set as it is after the call; and
\* after every call the latest record of the log reads back as the set in
\* memory (the appends succeed and a new process starts from the log).
C31_RecordPerGrowth ==
    [][last'.op = "context" =>
          LET gained == runtime'.expiredIds \ runtime.expiredIds
          IN  /\ entries' # entries <=> gained # {}
              /\ gained # {} =>
                     /\ Len(entries') = Len(entries) + 1
                     /\ SubSeq(entries', 1, Len(entries)) = entries
                     /\ isStateEntry(entries'[Len(entries')])
                     /\ Range(entries'[Len(entries')].data.expiredIds)
                            = runtime'.expiredIds
                     /\ Len(entries'[Len(entries')].data.expiredIds)
                            = Cardinality(runtime'.expiredIds)
              /\ readBrowserSnapshotExpiredIds(entries') = runtime'.expiredIds]_vars

\* C31 witness: a second record was appended by a call that expired one more
\* snapshot, and it lists both expired ids.
C31_Witness ==
    /\ last.op = "context"
    /\ Cardinality(last.expiry.expired) = 1
    /\ Cardinality(runtime.expiredIds) = 2
    /\ Len(entries) = 2
    /\ Range(entries[1].data.expiredIds) # runtime.expiredIds
    /\ Range(entries[2].data.expiredIds) = runtime.expiredIds

----------------------------------------------------------------------------
(* C32: the detection heuristics of docs/browser-snapshot-expiration.md *)

\* C32: a tool result of the browser tool classifies as a snapshot when its
\* text holds one of the characteristic patterns: an element reference such
\* as [e1], a line that starts with "url:" or with "title:", or a semantic
\* HTML tag such as <main> or <nav>.
C32_DetectedByText ==
    (call.fn = "isBrowserSnapshotToolResult" /\ call.done) =>
        LET m == call.args.message
            Contains(s, t) == \E i \in 1..(Len(s) - Len(t) + 1) :
                                  SubSeq(s, i, i + Len(t) - 1) = t
            HasLine(s, t) == \/ SubSeq(s, 1, Len(t)) = t
                             \/ Contains(s, "\n" \o t)
            Characteristic(s) ==
                \/ \E n \in 1..9 : Contains(s, "[e" \o ToString(n) \o "]")
                \/ HasLine(s, "url:")
                \/ HasLine(s, "title:")
                \/ \E tag \in {"<main>", "<nav>", "<section>", "<article>",
                               "<header>", "<footer>", "<aside>"} : Contains(s, tag)
        IN  (/\ m.role = "toolResult"
             /\ toLowerCase(trim(m.toolName)) = "browser"
             /\ \E k \in 1..Len(m.content) :
                    m.content[k].type = "text" /\ Characteristic(m.content[k].text))
            => call.result

----------------------------------------------------------------------------
(* C33, C34: the tracker after a tick *)

\* C33: in every state of a session (turns, calls of the handler, restarts)
\* no id is in the tracker and in the set of expired ids at the same time.
C33_TrackedAndExpiredDisjoint ==
    DOMAIN runtime.tracker \cap runtime.expiredIds = {}

\* C33 witness: a process started from a log that lists an expired id has
\* called the handler, which tracks a snapshot taken after the restart.
C33_Witness ==
    /\ last.op = "context"
    /\ last.expiry.ran
    /\ entries # <<>>
    /\ last.before.tracker = EmptyTracker
    /\ last.before.lastToolResultCount = 0
    /\ last.before.expiredIds = readBrowserSnapshotExpiredIds(entries)
    /\ runtime.expiredIds # {}
    /\ DOMAIN runtime.tracker # {}

\* C34: after a tick every entry of the tracker has a callsSince from 0 up to
\* but not including the threshold; an entry whose counter, with the turns
\* new to this tick added, reached the threshold is gone from the tracker,
\* and when the tick found a new snapshot the tracker holds that snapshot only.
C34_TrackedBelowThreshold ==
    (PassRan /\ last.op = "tick") =>
        /\ \A id \in DOMAIN runtime.tracker :
               /\ runtime.tracker[id] >= 0
               /\ runtime.tracker[id] < Threshold
        /\ \A id \in DOMAIN last.before.tracker :
               last.before.tracker[id] + last.added >= Threshold
                   => id \notin DOMAIN runtime.tracker
        /\ Candidates # {} =>
               /\ DOMAIN last.before.tracker \cap DOMAIN runtime.tracker = {}
               /\ Cardinality(DOMAIN runtime.tracker) = 1
               /\ \E i \in Candidates :
                      /\ \A j \in Candidates : j <= i
                      /\ DOMAIN runtime.tracker = {messages[i].toolCallId}

----------------------------------------------------------------------------
(* C35: the expired ids only grow *)

\* C35: within one process no step takes an id out of the set of expired
\* ids; every state record the handler appends lists all ids of the records
\* appended before it; so what the log reads back as never loses an id, and
\* a new process starts from that set.  Steps in which the handler's expiry,
\* append or pruning throws are included.
C35_ExpiredIdsMonotonic ==
    [][/\ last'.op # "restart" => runtime.expiredIds \subseteq runtime'.expiredIds
       /\ last'.op = "restart" =>
              /\ runtime'.expiredIds = readBrowserSnapshotExpiredIds(entries)
              /\ entries' = entries
       /\ readBrowserSnapshotExpiredIds(entries)
              \subseteq readBrowserSnapshotExpiredIds(entries')
       /\ entries' # entries =>
              /\ Len(entries') = Len(entries) + 1
              /\ \A i \in 1..Len(entries) :
                     /\ entries'[i] = entries[i]
                     /\ Range(entries[i].data.expiredIds)
                            \subseteq Range(entries'[Len(entries')].data.expiredIds)]_vars

\* C35 witness: a process started from a log of two records, the second of
\* which lists the id of the first and one more; its set is the second's.
C35_Witness ==
    /\ last.op = "restart"
    /\ Len(entries) = 2
    /\ Range(entries[1].data.expiredIds) # {}
    /\ Range(entries[1].data.expiredIds) \subseteq Range(entries[2].data.expiredIds)
    /\ Range(entries[1].data.expiredIds) # Range(entries[2].data.expiredIds)
    /\ runtime.expiredIds = Range(entries[2].data.expiredIds)

----------------------------------------------------------------------------
(* C36: a second tick on the same transcript *)

\* C36: a tick that directly follows a tick, the transcript being the same,
\* returns the input array itself, expires nothing, and leaves the tracker
\* with every callsSince, the set of expired ids and the stored counts of
\* tool results and user messages as the first tick left them.
C36_SecondTickIsNoOp ==
    [][(last.op = "tick" /\ last'.op = "tick") =>
          /\ messages' = messages
          /\ runtime' = runtime
          /\ last'.before = runtime
          /\ last'.added = 0
          /\ last'.expiry.same
          /\ last'.expiry.expired = {}
          /\ last'.output = messages
          /\ ~last'.returned]_vars

\* C36 witness: a tick found the counts of a transcript with an expired and a
\* tracked snapshot already stored, and left the runtime as it was.
C36_Witness ==
    /\ last.op = "tick"
    /\ last.before = runtime
    /\ runtime.settings.enabled
    /\ runtime.lastToolResultCount = CountRole(messages, "toolResult")
    /\ runtime.lastUserMessageCount = CountRole(messages, "user")
    /\ runtime.lastUserMessageCount > 0
    /\ runtime.expiredIds # {}
    /\ \E id \in DOMAIN runtime.tracker : runtime.tracker[id] > 0
    /\ last.output = messages

----------------------------------------------------------------------------
(* C37: the state of the session after a caught exception *)

\* C37: when the handler's catch ended a call (expireBrowserSnapshots or
\* pruneContextMessages threw), no replacement is returned and the session
\* is as it was before the call: the tracker, the expired ids and the stored
\* counts are those of before, no id was added to the expired ids, and the
\* log lists no id that was not expired before the call.
C37_CaughtLeavesStateAsBefore ==
    (last.op = "context" /\ last.fault # "none" /\ caughtAt(last.fault) = "hook") =>
        /\ ~last.returned
        /\ last.output = messages
        /\ runtime = last.before
        /\ ExpiredByPass = {}
        /\ readBrowserSnapshotExpiredIds(entries) \subseteq last.before.expiredIds

----------------------------------------------------------------------------
(* C38: the first call of a process *)

\* C38: in the first call of the handler in a process (the tracker is empty
\* and the stored counts are 0) every snapshot of the transcript whose id is
\* not among the expired ids read from the log is new: all of them but the
\* last in transcript order are expired at once and show the placeholder, and
\* the last is the only tracked id, with callsSince 0 and its content kept,
\* whatever turns follow it; the snapshots the log lists are passed over.
C38_FirstTickAfterRestart ==
    (/\ last.op = "context" /\ last.expiry.ran
     /\ last.before.tracker = EmptyTracker
     /\ last.before.lastToolResultCount = 0
     /\ last.before.lastUserMessageCount = 0) =>
        /\ \A i \in SnapshotTurns :
               messages[i].toolCallId \in
                   readBrowserSnapshotExpiredIds(entries) \ ExpiredByPass
                       => /\ messages[i].toolCallId \in last.before.expiredIds
                          /\ i \notin Candidates
                          /\ last.afterExpiry[i] = messages[i]
        /\ Candidates = {} => runtime.tracker = EmptyTracker /\ ExpiredByPass = {}
        /\ Candidates # {} =>
               LET newest == CHOOSE i \in Candidates : \A j \in Candidates : j <= i
               IN  /\ DOMAIN runtime.tracker = {messages[newest].toolCallId}
                   /\ runtime.tracker[messages[newest].toolCallId] = 0
                   /\ last.afterExpiry[newest] = messages[newest]
                   /\ ExpiredByPass =
                          {messages[i].toolCallId : i \in Candidates \ {newest}}
                   /\ \A i \in Candidates \ {newest} :
                          ShowsPlaceholder(last.afterExpiry, i)

\* C38 witness: a process started from a log that lists t1 makes its first
\* call on a transcript in which the snapshot t2 is followed by a user turn
\* (threshold 2): t1 is passed over and t2 is tracked with callsSince 0.
C38_Witness ==
    /\ last.op = "context" /\ last.expiry.ran
    /\ last.before.tracker = EmptyTracker
    /\ last.before.lastToolResultCount = 0
    /\ last.before.expiredIds = {"t1"}
    /\ Threshold = 2
    /\ runtime.expiredIds = {"t1"}
    /\ runtime.tracker = [id \in {"t2"} |-> 0]
    /\ \E i \in Candidates : \E j \in (i + 1)..Len(messages) :
           messages[j].role = "user"

----------------------------------------------------------------------------
(* C39: the placeholder in the transcript the handler returns *)

\* C39: in the transcript a call of the handler returns, the tool result of
\* every snapshot expired by that call holds the snapshot-expired
\* placeholder: the pruner, run on the output of the expiry pass in the same
\* call, leaves that turn as the expiry pass made it.
C39_PrunerKeepsExpiredPlaceholder ==
    (last.op = "context" /\ last.returned) =>
        \A i \in ToolResults :
            messages[i].toolCallId \in ExpiredByPass =>
                /\ ShowsPlaceholder(last.afterExpiry, i)
                /\ ShowsPlaceholder(last.output, i)
                /\ last.output[i] = last.afterExpiry[i]

----------------------------------------------------------------------------
(* C40: what the two stages leave alone *)

\* C40: after the expiry pass and after the pruner the transcript has the
\* length of the input; every user and assistant turn is the input's turn at
\* the same position; every tool result is the input's turn or a copy of it
\* that differs in its content only, so role, tool-call id and tool name are
\* kept; and the host's transcript itself is not changed by the call.
C40_OnlyToolResultContentChanges ==
    [][last'.op = "context" =>
          /\ messages' = messages
          /\ \A out \in {last'.afterExpiry, last'.afterSoft, last'.output} :
                 /\ Len(out) = Len(messages)
                 /\ \A i \in 1..Len(messages) :
                        IF messages[i].role = "toolResult"
                        THEN /\ out[i] = [messages[i] EXCEPT !.content = out[i].content]
                             /\ out[i].role = "toolResult"
                             /\ out[i].toolCallId = messages[i].toolCallId
                             /\ out[i].toolName = messages[i].toolName
                        ELSE out[i] = messages[i]]_vars

\* C40 witness: in one call the expiry pass replaced one tool result and the
\* pruner another, next to a user turn and two assistant turns.
C40_Witness ==
    /\ last.op = "context"
    /\ last.returned
    /\ \E i, j \in ToolResults :
           /\ i # j
           /\ last.afterExpiry[i] # messages[i]
           /\ last.afterExpiry[j] = messages[j]
           /\ last.output[j] # messages[j]
    /\ \E i \in 1..Len(messages) : messages[i].role = "user"
    /\ \E i \in 1..Len(messages) : messages[i].role = "assistant"

====
